---- MODULE Spec2Model ----
(***************************************************************************)
(* repohack: the threat-detection pipeline.                                *)
(*                                                                         *)
(*   parseAST / convertToASTNodes   lib/utils/ast-parser.ts                *)
(*   CodeExecutionScanner           lib/scanners/code-execution.ts         *)
(*   scanFileSystem                 lib/scanners/file-system.ts            *)
(*   scanRepository                 lib/actions/scan.ts                    *)
(*                                                                         *)
(* The external parser (@typescript-eslint/parser) is not modelled: a      *)
(* file's content is the syntax tree the parser returns for it, or one of  *)
(* the two contents for which no tree exists (malformed, empty).           *)
(***************************************************************************)
EXTENDS Integers, Sequences, FiniteSets, TLC

\* ------------------------------------------------------------------------
\* Bounds of the model
\* ------------------------------------------------------------------------
MaxStmts == 3      \* statements in all the files of one scanner call
MaxFiles == 2      \* files handed to one scanner call
MaxRepoFiles == 2  \* entries of the cloned repository
MaxTravDepth == 2  \* largest maximum depth tried below the default

\* ------------------------------------------------------------------------
\* TSESTree nodes, as the external parser returns them.
\* kids lists the node's child properties in source order; arr tells
\* whether the property holds an array of nodes.
\* ------------------------------------------------------------------------
Kid(p, a, n) == [prop |-> p, arr |-> a, node |-> n]

Node(t, nm, v, ln, ks) ==
  [type |-> t, name |-> nm, value |-> v, line |-> ln, kids |-> ks]

NoNode == Node("undefined", "", "none", 0, <<>>)

KidsOf(n, p) ==
  LET ks == SelectSeq(n.kids, LAMBDA k : k.prop = p)
  IN  [i \in 1..Len(ks) |-> ks[i].node]

ArrayKidsOf(n, p) ==
  LET ks == SelectSeq(n.kids, LAMBDA k : k.prop = p /\ k.arr)
  IN  [i \in 1..Len(ks) |-> ks[i].node]

KidOf(n, p) == IF KidsOf(n, p) = <<>> THEN NoNode ELSE KidsOf(n, p)[1]

ArrKids(p, ns) == [i \in 1..Len(ns) |-> Kid(p, TRUE, ns[i])]

Ident(nm, ln) == Node("Identifier", nm, "none", ln, <<>>)
StrLit(ln) == Node("Literal", "", "string", ln, <<>>)
NumLit(ln) == Node("Literal", "", "number", ln, <<>>)
Member(obj, prop, ln) ==
  Node("MemberExpression", "", "none", ln,
       <<Kid("object", FALSE, obj), Kid("property", FALSE, prop)>>)
Call(callee, args, ln) ==
  Node("CallExpression", "", "none", ln,
       <<Kid("callee", FALSE, callee)>> \o ArrKids("arguments", args))
New(callee, args, ln) ==
  Node("NewExpression", "", "none", ln,
       <<Kid("callee", FALSE, callee)>> \o ArrKids("arguments", args))
ImportExpr(src, ln) ==
  Node("ImportExpression", "", "none", ln, <<Kid("source", FALSE, src)>>)
Binary(l, r, ln) ==
  Node("BinaryExpression", "", "none", ln,
       <<Kid("left", FALSE, l), Kid("right", FALSE, r)>>)
Quasi(ln) == Node("TemplateElement", "", "none", ln, <<>>)
\* `text${e}text`
Template(e, ln) ==
  Node("TemplateLiteral", "", "none", ln,
       <<Kid("quasis", TRUE, Quasi(ln)), Kid("expressions", TRUE, e),
         Kid("quasis", TRUE, Quasi(ln))>>)
ExprStmt(e, ln) ==
  Node("ExpressionStatement", "", "none", ln, <<Kid("expression", FALSE, e)>>)
Block(stmts, ln) == Node("BlockStatement", "", "none", ln, ArrKids("body", stmts))
IfStmt(test, cons, ln) ==
  Node("IfStatement", "", "none", ln,
       <<Kid("test", FALSE, test), Kid("consequent", FALSE, cons)>>)
Arrow(body, ln) ==
  Node("ArrowFunctionExpression", "", "none", ln, <<Kid("body", FALSE, body)>>)
VarDecl(id, init, ln) ==
  Node("VariableDeclaration", "", "none", ln,
       ArrKids("declarations",
               <<Node("VariableDeclarator", "", "none", ln,
                      <<Kid("id", FALSE, id), Kid("init", FALSE, init)>>)>>))
Assign(l, r, ln) ==
  Node("AssignmentExpression", "", "none", ln,
       <<Kid("left", FALSE, l), Kid("right", FALSE, r)>>)
JSXName(ln) == Node("JSXIdentifier", "div", "none", ln, <<>>)
JSXContainer(e, ln) ==
  Node("JSXExpressionContainer", "", "none", ln, <<Kid("expression", FALSE, e)>>)
JSXOpening(attrs, ln) ==
  Node("JSXOpeningElement", "", "none", ln,
       <<Kid("name", FALSE, JSXName(ln))>> \o ArrKids("attributes", attrs))
JSXClosing(ln) ==
  Node("JSXClosingElement", "", "none", ln, <<Kid("name", FALSE, JSXName(ln))>>)
JSXAttr(v, ln) ==
  Node("JSXAttribute", "", "none", ln,
       <<Kid("name", FALSE, JSXName(ln)), Kid("value", FALSE, v)>>)
JSXElem(attrs, children, ln) ==
  Node("JSXElement", "", "none", ln,
       <<Kid("openingElement", FALSE, JSXOpening(attrs, ln))>>
       \o ArrKids("children", children)
       \o <<Kid("closingElement", FALSE, JSXClosing(ln))>>)
Program(stmts) == Node("Program", "", "none", 1, ArrKids("body", stmts))

\* ------------------------------------------------------------------------
\* The source texts the model scans: expressions, and the statements that
\* hold them.
\* ------------------------------------------------------------------------
EvalArgs == {"evalLit", "evalId", "evalTpl", "evalBin", "evalCall", "evalMember"}
ShellNames == {"exec", "spawn", "execSync", "spawnSync"}
Exprs == EvalArgs \cup ShellNames
           \cup {"fnLit", "fnId", "import", "timerStr", "timerFn", "intervalStr", "log"}

Expr(x, ln) ==
  CASE x = "evalLit"    -> Call(Ident("eval", ln), <<StrLit(ln)>>, ln)
    [] x = "evalId"     -> Call(Ident("eval", ln), <<Ident("userInput", ln)>>, ln)
    [] x = "evalTpl"    -> Call(Ident("eval", ln), <<Template(Ident("x", ln), ln)>>, ln)
    [] x = "evalBin"    -> Call(Ident("eval", ln),
                                <<Binary(Ident("a", ln), Ident("b", ln), ln)>>, ln)
    [] x = "evalCall"   -> Call(Ident("eval", ln), <<Call(Ident("f", ln), <<>>, ln)>>, ln)
    [] x = "evalMember" -> Call(Ident("eval", ln),
                                <<Member(Ident("config", ln), Ident("code", ln), ln)>>, ln)
    [] x = "fnLit"      -> New(Ident("Function", ln), <<StrLit(ln)>>, ln)
    [] x = "fnId"       -> New(Ident("Function", ln), <<Ident("userInput", ln)>>, ln)
    [] x = "fnNone"     -> New(Ident("Function", ln), <<>>, ln)
    [] x = "fnLitId"    -> New(Ident("Function", ln),
                               <<StrLit(ln), Ident("userCode", ln)>>, ln)
    [] x = "fnLit2"     -> New(Ident("Function", ln), <<StrLit(ln), StrLit(ln)>>, ln)
    [] x = "fnIds3"     -> New(Ident("Function", ln),
                               <<Ident("param1", ln), Ident("param2", ln),
                                 Ident("code", ln)>>, ln)
    [] x = "import"     -> ImportExpr(Ident("modulePath", ln), ln)
    [] x = "timerStr"   -> Call(Ident("setTimeout", ln), <<StrLit(ln), NumLit(ln)>>, ln)
    [] x = "timerFn"    -> Call(Ident("setTimeout", ln), <<Ident("fn", ln), NumLit(ln)>>, ln)
    [] x = "intervalStr" -> Call(Ident("setInterval", ln), <<StrLit(ln), NumLit(ln)>>, ln)
    [] x = "log"        -> Call(Member(Ident("console", ln), Ident("log", ln), ln),
                                <<StrLit(ln)>>, ln)
    [] x \in ShellNames -> Call(Ident(x, ln), <<Ident("cmd", ln)>>, ln)

Wrappers == {"stmt", "if", "arrow", "template", "jsxChild", "jsxAttr", "assign"}

Wrap(w, e, ln) ==
  CASE w = "stmt"     -> ExprStmt(e, ln)
    [] w = "if"       -> IfStmt(Ident("ok", ln), Block(<<ExprStmt(e, ln)>>, ln), ln)
    [] w = "arrow"    -> VarDecl(Ident("f", ln), Arrow(Block(<<ExprStmt(e, ln)>>, ln), ln), ln)
    [] w = "template" -> ExprStmt(Template(e, ln), ln)
    [] w = "jsxChild" -> ExprStmt(JSXElem(<<>>, <<JSXContainer(e, ln)>>, ln), ln)
    [] w = "jsxAttr"  -> ExprStmt(JSXElem(<<JSXAttr(JSXContainer(e, ln), ln)>>, <<>>, ln), ln)
    [] w = "assign"   -> ExprStmt(Assign(Ident("r", ln), e, ln), ln)

\* a statement of the source text: an expression in a syntactic position
WrappedExprs == {"evalId", "exec"}
Stmts == {[w |-> "stmt", x |-> x] : x \in Exprs}
           \cup {[w |-> w, x |-> x] : w \in Wrappers \ {"stmt"}, x \in WrappedExprs}

\* the tree of a text of statements ss, statement i on line i
TreeOf(ss) == Program([i \in 1..Len(ss) |-> Wrap(ss[i].w, Expr(ss[i].x, i), i)])

\* ------------------------------------------------------------------------
\* convertToASTNodes: the flattened node sequence
\* ------------------------------------------------------------------------
\* simplifiedNode: type and position, plus the sub-parts kept by reference
\* (callee and arguments of a call or a new, source of an import).
SimplifiedNode(n) ==
  [type |-> n.type,
   line |-> n.line,
   callee |-> IF n.type \in {"CallExpression", "NewExpression"}
              THEN KidOf(n, "callee") ELSE NoNode,
   arguments |-> IF n.type \in {"CallExpression", "NewExpression"}
                 THEN KidsOf(n, "arguments") ELSE <<>>,
   source |-> IF n.type \in {"ImportDeclaration", "ImportExpression"}
              THEN KidOf(n, "source") ELSE NoNode]

\* the children traverse() is called on, in call order
traverseChildren(n) ==
  CASE n.type = "Program" -> KidsOf(n, "body")
    [] n.type = "FunctionDeclaration" ->
         KidsOf(n, "id") \o KidsOf(n, "params") \o KidsOf(n, "body")
    [] n.type = "VariableDeclaration" -> KidsOf(n, "declarations")
    [] n.type = "VariableDeclarator" -> KidsOf(n, "id") \o KidsOf(n, "init")
    [] n.type = "CallExpression" -> KidsOf(n, "callee") \o KidsOf(n, "arguments")
    [] n.type = "NewExpression" -> KidsOf(n, "callee") \o KidsOf(n, "arguments")
    [] n.type = "ExpressionStatement" -> KidsOf(n, "expression")
    [] n.type = "BlockStatement" -> KidsOf(n, "body")
    [] n.type = "ReturnStatement" -> KidsOf(n, "argument")
    [] n.type = "Identifier" -> <<>>
    [] n.type = "Literal" -> <<>>
    [] n.type = "TemplateLiteral" -> KidsOf(n, "quasis") \o KidsOf(n, "expressions")
    [] n.type = "BinaryExpression" -> KidsOf(n, "left") \o KidsOf(n, "right")
    [] n.type = "ImportDeclaration" -> KidsOf(n, "source") \o KidsOf(n, "specifiers")
    [] n.type = "ImportExpression" -> KidsOf(n, "source")
    [] n.type = "JSXElement" ->
         KidsOf(n, "openingElement") \o KidsOf(n, "children")
           \o KidsOf(n, "closingElement")
    [] n.type = "JSXExpressionContainer" -> KidsOf(n, "expression")
    [] n.type = "ArrowFunctionExpression" -> KidsOf(n, "params") \o KidsOf(n, "body")
    [] OTHER ->
         ArrayKidsOf(n, "body") \o ArrayKidsOf(n, "declarations")
           \o ArrayKidsOf(n, "arguments") \o ArrayKidsOf(n, "params")
           \o ArrayKidsOf(n, "specifiers")

RECURSIVE traverse(_), traverseEach(_)
traverse(n) == <<SimplifiedNode(n)>> \o traverseEach(traverseChildren(n))
traverseEach(ns) ==
  IF ns = <<>> THEN <<>> ELSE traverse(Head(ns)) \o traverseEach(Tail(ns))

convertToASTNodes(ast) == traverse(ast)

getNodesByType(nodes, nodeType) == SelectSeq(nodes, LAMBDA n : n.type = nodeType)

\* ------------------------------------------------------------------------
\* Paths: a path is the sequence of its segments, a segment is
\* [base, ext]: "a.ts" is [base |-> "a", ext |-> "ts"], "src" has ext "".
\* ------------------------------------------------------------------------
Seg(b, e) == [base |-> b, ext |-> e]

\* the text after the last '.' of the path
PathExt(p) == IF p = <<>> THEN "" ELSE p[Len(p)].ext

\* segment.startsWith('.')
SegHidden(s) == s.base \in {".git", ".github", ".hidden"}

\* path.includes('.git')
IncludesDotGit(p) ==
  \E i \in 1..Len(p) : p[i].base \in {".git", ".github"} \/ p[i].ext = "gitignore"

\* ------------------------------------------------------------------------
\* parseAST
\* ------------------------------------------------------------------------
\* A content is [kind, stmts]: kind "source" for a text of statements,
\* "malformed" for a text the parser rejects, "empty" for ''.
Source(ss) == [kind |-> "source", stmts |-> ss]
Malformed == [kind |-> "malformed", stmts |-> <<>>]
Empty == [kind |-> "empty", stmts |-> <<>>]
\* a content that is not a string: null, undefined, a number
NonString == [kind |-> "nonstring", stmts |-> <<>>]

UsesJSX(content) ==
  \E i \in 1..Len(content.stmts) : content.stmts[i].w \in {"jsxChild", "jsxAttr"}

\* parse(): the external parser throws on a malformed text, and on JSX when
\* the jsx option (set from the extension) is off
ParserThrows(content, ext) ==
  \/ content.kind = "malformed"
  \/ UsesJSX(content) /\ ext \notin {"tsx", "jsx"}

\* a failure carrying an empty node sequence and no error text
parseAST_SilentFailure(content, filePath) ==
  IF content.kind = "empty"
       \/ PathExt(filePath) \notin {"ts", "tsx", "js", "jsx"}
       \/ ParserThrows(content, PathExt(filePath))
  THEN [success |-> FALSE, nodes |-> <<>>, error |-> "", filePath |-> filePath]
  ELSE [success |-> TRUE, nodes |-> convertToASTNodes(TreeOf(content.stmts)),
        filePath |-> filePath]

\* the extension is tested before the content
parseAST_ExtensionFirst(content, filePath) ==
  IF PathExt(filePath) \notin {"ts", "tsx", "js", "jsx"}
  THEN [success |-> FALSE, filePath |-> filePath, error |-> "Unsupported file type",
        parserCalled |-> FALSE]
  ELSE IF content.kind \in {"empty", "nonstring"}
  THEN [success |-> FALSE, filePath |-> filePath,
        error |-> "Invalid content: must be a non-empty string",
        parserCalled |-> FALSE]
  ELSE IF ParserThrows(content, PathExt(filePath))
  THEN [success |-> FALSE, filePath |-> filePath, error |-> "Parsing error",
        parserCalled |-> TRUE]
  ELSE [success |-> TRUE, nodes |-> convertToASTNodes(TreeOf(content.stmts)),
        filePath |-> filePath, parserCalled |-> TRUE]

\* the ParseResult: {success: true, ast, nodes, filePath} or
\* {success: false, error, filePath}; parserCalled records whether
\* parse(content, ...) was reached
parseAST(content, filePath) ==
  IF content.kind \in {"empty", "nonstring"}
  THEN [success |-> FALSE, filePath |-> filePath,
        error |-> "Invalid content: must be a non-empty string",
        parserCalled |-> FALSE]
  ELSE IF PathExt(filePath) \notin {"ts", "tsx", "js", "jsx"}
  THEN [success |-> FALSE, filePath |-> filePath, error |-> "Unsupported file type",
        parserCalled |-> FALSE]
  ELSE IF ParserThrows(content, PathExt(filePath))
  THEN \* catch (error): error.message of the parser
       [success |-> FALSE, filePath |-> filePath, error |-> "Parsing error",
        parserCalled |-> TRUE]
  ELSE [success |-> TRUE, nodes |-> convertToASTNodes(TreeOf(content.stmts)),
        filePath |-> filePath, parserCalled |-> TRUE]

\* ------------------------------------------------------------------------
\* CodeExecutionScanner
\* ------------------------------------------------------------------------
\* node.callee && typeof node.callee === 'object' && 'name' in node.callee
HasNamedCallee(node) ==
  node.callee # NoNode /\ node.callee.type \in {"Identifier", "JSXIdentifier"}

isDynamicEvalCall(node) ==
  /\ Len(node.arguments) > 0
  /\ node.arguments[1].type \in
       {"Identifier", "TemplateLiteral", "BinaryExpression", "CallExpression"}

isDynamicFunctionConstructor(node) ==
  \E i \in 1..Len(node.arguments) :
    node.arguments[i].type \in
      {"Identifier", "TemplateLiteral", "BinaryExpression", "CallExpression",
       "MemberExpression"}

assessCodeInjectionRisk(node) ==
  IF Len(node.arguments) = 0 THEN "unknown_risk"
  ELSE LET argType == node.arguments[1].type
       IN CASE argType = "Identifier" -> "variable_based_code"
            [] argType = "TemplateLiteral" -> "template_literal_with_expressions"
            [] argType = "BinaryExpression" -> "string_concatenation"
            [] argType = "CallExpression" -> "function_call_result"
            [] argType = "MemberExpression" -> "object_property_access"
            [] argType = "Literal" -> "static_string"
            [] OTHER -> "unknown_risk"

\* The code of a Finding is a text: either an excerpt, a sequence of lines
\* "<lineNumber>: <line>", or the fixed label `${name}()` of a callee name
\* (Label("exec") is the text 'exec()').
Excerpt(ls) == [excerpt |-> ls, label |-> ""]
Label(name) == [excerpt |-> <<>>, label |-> name]

Max2(a, b) == IF a > b THEN a ELSE b
Min2(a, b) == IF a < b THEN a ELSE b

\* file.content.split('\n'): statement i of a text is its line i
LinesOf(content) == content.stmts

\* extractCodeContext: lines.slice(max(0, startLine - 3), min(length,
\* startLine + 1)), each line prefixed with contextStart + index + 1
extractCodeContext(node, file) ==
  LET startLine == node.line
      lines == LinesOf(file.content)
      contextStart == Max2(0, startLine - 3)
      contextEnd == Min2(Len(lines), startLine + 1)
  IN  Excerpt([index \in 1..(contextEnd - contextStart) |->
                 [lineNumber |-> contextStart + index,
                  text |-> lines[contextStart + index]]])

Threat(sub, sev, file, node, code, det) ==
  [category |-> "code_execution", subcategory |-> sub, severity |-> sev,
   file |-> file.path, line |-> node.line, code |-> code, details |-> det]

EvalThreat(node, file) ==
  Threat("eval_usage", "CRITICAL", file, node, extractCodeContext(node, file),
         [nodeType |-> node.type, arguments |-> Len(node.arguments),
          isDynamic |-> isDynamicEvalCall(node),
          riskLevel |-> IF isDynamicEvalCall(node) THEN "high" ELSE "medium"])

detectEvalUsage(nodes, file) ==
  LET hits == SelectSeq(getNodesByType(nodes, "CallExpression"),
                        LAMBDA n : HasNamedCallee(n) /\ n.callee.name = "eval")
  IN  [i \in 1..Len(hits) |-> EvalThreat(hits[i], file)]

detectDynamicImports(nodes, file) ==
  LET hits == getNodesByType(nodes, "ImportExpression")
  IN  [i \in 1..Len(hits) |->
         Threat("dynamic_import", "WARNING", file, hits[i], Label("import"),
                [nodeType |-> hits[i].type, source |-> hits[i].source])]

detectFunctionConstructor(nodes, file) ==
  LET hits == SelectSeq(getNodesByType(nodes, "NewExpression"),
                        LAMBDA n : HasNamedCallee(n) /\ n.callee.name = "Function")
  IN  [i \in 1..Len(hits) |->
         Threat("function_constructor", "WARNING", file, hits[i],
                extractCodeContext(hits[i], file),
                [nodeType |-> hits[i].type, arguments |-> Len(hits[i].arguments),
                 isDynamic |-> isDynamicFunctionConstructor(hits[i]),
                 injectionRisk |-> assessCodeInjectionRisk(hits[i]),
                 riskLevel |-> IF isDynamicFunctionConstructor(hits[i])
                               THEN "high" ELSE "medium"])]

detectTimerThreats(nodes, file) ==
  LET hits == SelectSeq(getNodesByType(nodes, "CallExpression"),
                 LAMBDA n : /\ HasNamedCallee(n)
                            /\ n.callee.name \in {"setTimeout", "setInterval"}
                            /\ Len(n.arguments) > 0
                            /\ n.arguments[1].type = "Literal"
                            /\ n.arguments[1].value = "string")
  IN  [i \in 1..Len(hits) |->
         Threat("timer_code_injection", "WARNING", file, hits[i],
                Label(hits[i].callee.name),
                [nodeType |-> hits[i].type, functionName |-> hits[i].callee.name,
                 argumentType |-> "string"])]

detectShellExecution(nodes, file) ==
  LET hits == SelectSeq(getNodesByType(nodes, "CallExpression"),
                 LAMBDA n : /\ HasNamedCallee(n)
                            /\ n.callee.name \in {"exec", "spawn", "execSync", "spawnSync"})
  IN  [i \in 1..Len(hits) |->
         Threat("shell_execution", "CRITICAL", file, hits[i],
                Label(hits[i].callee.name),
                [nodeType |-> hits[i].type, functionName |-> hits[i].callee.name,
                 arguments |-> Len(hits[i].arguments)])]

\* the rules called in another order: shell execution first
analyzeASTNodes_ShellFirst(nodes, file) ==
  detectShellExecution(nodes, file)
    \o detectEvalUsage(nodes, file)
    \o detectDynamicImports(nodes, file)
    \o detectFunctionConstructor(nodes, file)
    \o detectTimerThreats(nodes, file)

analyzeASTNodes(nodes, file) ==
  detectEvalUsage(nodes, file)
    \o detectDynamicImports(nodes, file)
    \o detectFunctionConstructor(nodes, file)
    \o detectTimerThreats(nodes, file)
    \o detectShellExecution(nodes, file)

\* An unexpected exception inside analyzeASTNodes: file.throwsIn names
\* the rule whose matching of a node raises it ("none": no exception). It
\* is raised when that rule has a node to match.
RuleThrows(nodes, file) ==
  /\ file.throwsIn # "none"
  /\ \E i \in 1..Len(analyzeASTNodes(nodes, file)) :
       analyzeASTNodes(nodes, file)[i].subcategory = file.throwsIn

\* threats assigned, not pushed: the Findings of the files before are lost
ScanOneFile_Overwrites(threats, file) ==
  IF file.extension \notin {".ts", ".tsx", ".js", ".jsx"} \/ file.isBinary
  THEN threats
  ELSE LET parseResult == parseAST(file.content, file.path)
       IN  IF ~parseResult.success
           THEN <<>>
           ELSE analyzeASTNodes(parseResult.nodes, file)

\* one iteration of the loop of scan(): the threats array after file
\* (a file is [path, content, size, extension, isBinary]; extension is
\* "undefined" when the object has no such property)
ScanOneFile(threats, file) ==
  IF file.extension \notin {".ts", ".tsx", ".js", ".jsx"} \/ file.isBinary
  THEN threats
  ELSE LET parseResult == parseAST(file.content, file.path)
       IN  IF ~parseResult.success
           THEN threats
           ELSE IF RuleThrows(parseResult.nodes, file)
           THEN threats   \* catch (error): console.error, next file
           ELSE threats \o analyzeASTNodes(parseResult.nodes, file)

\* ------------------------------------------------------------------------
\* traverseDirectory and scanFileSystem, over the working tree of the clone.
\* An entry of a directory is
\*   [name, link, realPath, kind ("file" or "dir"), size, content, readable,
\*    statOk, listOk, entries]
\* link: the entry is a symbolic link, and realPath is what fs.realpath
\* gives for it; the other fields are what the operations on the entry's
\* path give, which for a link are those of its target:
\* statOk: fs.stat succeeds; listOk: fs.readdir succeeds (a directory);
\* readable: fs.readFile succeeds (a file).
\* ------------------------------------------------------------------------
FileEntry(name, size, content, readable) ==
  [name |-> name, link |-> FALSE, realPath |-> <<>>,
   kind |-> "file", size |-> size, content |-> content,
   readable |-> readable, statOk |-> TRUE, listOk |-> TRUE, entries |-> <<>>]

DirEntry(name, listOk, entries) ==
  [name |-> name, link |-> FALSE, realPath |-> <<>>,
   kind |-> "dir", size |-> 0, content |-> Empty,
   readable |-> FALSE, statOk |-> TRUE, listOk |-> listOk, entries |-> entries]

\* a symbolic link called name to the entry target, whose real path is
\* realPath
LinkEntry(name, target, realPath) ==
  [target EXCEPT !.name = name, !.link = TRUE, !.realPath = realPath]

\* an entry fs.stat fails on: a dangling link, or a file removed or made
\* inaccessible after the listing
UnstatableEntry(name, link) ==
  [name |-> name, link |-> link, realPath |-> <<>>,
   kind |-> "file", size |-> 0, content |-> Empty,
   readable |-> FALSE, statOk |-> FALSE, listOk |-> FALSE, entries |-> <<>>]

\* getFileMetadata: the FileMetadata of an entry at path rel, once fs.stat
\* succeeded. fs.stat follows links: the Stats are those of the target and
\* stats.isSymbolicLink() is false.
getFileMetadata(e, rel) ==
  [path |-> rel, relativePath |-> rel, size |-> e.size,
   isDirectory |-> e.kind = "dir", isSymbolicLink |-> FALSE,
   isFile |-> e.kind = "file",
   content |-> e.content, readable |-> e.readable]

\* maxFileSize: 1024 * 1024 * 1024
ScanMaxFileSize == 1073741824
\* maxDepth: options.maxDepth || 10
DefaultMaxDepth == 10

ScanOptions ==
  [maxDepth |-> DefaultMaxDepth, includeHidden |-> FALSE,
   fileExtensions |-> {"ts", "js", "jsx", "tsx"},
   maxFileSize |-> ScanMaxFileSize, followSymlinks |-> FALSE]

shouldIncludeFile(file, options) ==
  /\ ~(/\ ~options.includeHidden
       /\ \E i \in 2..Len(file.relativePath) : SegHidden(file.relativePath[i]))
  /\ ~(options.maxFileSize > 0 /\ file.size > options.maxFileSize)
  /\ options.fileExtensions # {} => PathExt(file.relativePath) \in options.fileExtensions

\* the TraversalResult, and listed: the paths fs.readdir was called on, in
\* order
EmptyTraversal ==
  [files |-> <<>>, directories |-> <<>>, errors |-> <<>>, totalSize |-> 0,
   listed |-> <<>>]

\* a file is added without its size being added to totalSize
VisitItem_SizeNotAdded(e, metadata, options, result) ==
  IF metadata.isFile /\ shouldIncludeFile(metadata, options)
  THEN [result EXCEPT !.files = Append(@, metadata)]
  ELSE result

\* the body of for (const item of items) for the entry e at fullPath, when
\* getFileMetadata gave metadata and the entry is not a directory
VisitItem(e, metadata, options, result) ==
  IF metadata.isSymbolicLink
  THEN IF options.followSymlinks
       THEN LET realMetadata == getFileMetadata(e, e.realPath)
            IN  IF shouldIncludeFile(realMetadata, options)
                THEN [result EXCEPT !.files = Append(@, realMetadata),
                                    !.totalSize = @ + realMetadata.size]
                ELSE result
       ELSE result
  ELSE IF metadata.isFile /\ shouldIncludeFile(metadata, options)
  THEN [result EXCEPT !.files = Append(@, metadata),
                      !.totalSize = @ + metadata.size]
  ELSE result

\* traverse(currentPath, depth) on the listing items of currentPath,
\* accumulating into result
RECURSIVE traverseItems(_, _, _, _, _)
traverseItems(items, currentPath, depth, options, result) ==
  IF items = <<>> THEN result
  ELSE
    LET e == Head(items)
        fullPath == Append(currentPath, e.name)
        metadata == getFileMetadata(e, fullPath)
        after ==
          IF ~e.statOk THEN result
          ELSE IF metadata.isDirectory THEN
            LET r1 == [result EXCEPT !.directories = Append(@, metadata)]
                r2 == [r1 EXCEPT !.listed = Append(@, fullPath)]
            IN  IF depth + 1 <= options.maxDepth
                THEN IF e.listOk
                     THEN traverseItems(e.entries, fullPath, depth + 1, options, r2)
                     ELSE [r2 EXCEPT !.errors = Append(@, <<"Failed to read directory", fullPath>>)]
                ELSE r1
          ELSE VisitItem(e, metadata, options, result)
    IN  traverseItems(Tail(items), currentPath, depth, options, after)

\* traverse(rootPath, 0) with the maximum depth one more than asked
traverseDirectory_OneDeeper(root, options) ==
  IF options.maxDepth + 1 < 0 THEN EmptyTraversal
  ELSE IF ~root.listOk
  THEN [EmptyTraversal EXCEPT !.listed = <<<<>>>>,
                              !.errors = <<<<"Failed to read directory", <<>>>>>>]
  ELSE traverseItems(root.entries, <<>>, 0,
                     [options EXCEPT !.maxDepth = @ + 1],
                     [EmptyTraversal EXCEPT !.listed = <<<<>>>>])

\* the root: traverse(rootPath, 0)
traverseDirectory(root, options) ==
  IF options.maxDepth < 0 THEN EmptyTraversal
  ELSE IF ~root.listOk
  THEN [EmptyTraversal EXCEPT !.listed = <<<<>>>>,
                              !.errors = <<<<"Failed to read directory", <<>>>>>>]
  ELSE traverseItems(root.entries, <<>>, 0, options,
                     [EmptyTraversal EXCEPT !.listed = <<<<>>>>])

\* identifyFileType: the category of a file name
FileCategory(rel) ==
  LET ext == PathExt(rel)
  IN  CASE ext \in {"ts", "tsx", "js", "jsx"} -> "code"
        [] ext \in {"json", "yaml", "yml", "toml", "xml"} -> "config"
        [] ext \in {"md", "txt"} -> "document"
        [] OTHER -> "other"

\* filterFilesByType with every include flag set: the size filter alone
filterFilesByType(files, maxFileSize) ==
  SelectSeq(files, LAMBDA f :
    /\ FileCategory(f.relativePath) \in {"code", "config", "document", "binary", "other"}
    /\ ~(maxFileSize > 0 /\ f.size > maxFileSize))

\* scanFileSystem(repository.path, {maxFileSize, fileExtensions}): files and errors
scanFileSystem(root, options) ==
  LET traversalResult == traverseDirectory(root, options)
  IN  [files |-> filterFilesByType(traversalResult.files, options.maxFileSize),
       errors |-> traversalResult.errors]

\* ------------------------------------------------------------------------
\* scanRepository: the scan session
\* ------------------------------------------------------------------------
VARIABLES
  pc,          \* where scanRepository stands: clone, discover, read, scan, done
  repo,        \* the repository: [clone (outcome of cloneRepository), root]
  scanResult,  \* what scanFileSystem returned: [files, errors]
  ri,          \* index of the read loop into scanResult.files
  files,       \* the RepositoryFile array handed to the scanner
  si,          \* index of the loop of CodeExecutionScanner.scan into files
  threats,     \* the threats array of CodeExecutionScanner.scan
  errors,      \* the errors array of scanRepository
  result,      \* the ScanResult returned
  cancelled,   \* an external cancellation (the timeout of the scan) was raised
  tempDir,     \* the temporary clone directory: none, exists, removed
  travOptions, \* the TraversalOptions handed to traverseDirectory
  traversal,   \* the TraversalResult of traverseDirectory
  parse,       \* a call of parseAST: its arguments and its result
  mon,         \* a MemoryMonitor and the memory usage of the process
  rd,          \* a call of readFileWithMemoryMonitoring
  plf,         \* a call of processLargeFile
  an,          \* a call of analyzeFilesForThreats
  form         \* the RepositoryInput component

\* the variables outside the scan session
unitVars == <<parse, mon, rd, plf, an, form>>

vars == <<pc, repo, scanResult, ri, files, si, threats, errors, result, cancelled,
          tempDir, travOptions, traversal, parse, mon, rd, plf, an, form>>

\* no call is under way outside the scan session
Idle == [pc |-> "idle"]

UnitsIdle ==
  /\ parse = Idle
  /\ mon = Idle
  /\ rd = Idle
  /\ plf = Idle
  /\ an = Idle
  /\ form = Idle

NoResult ==
  [scanCompleted |-> FALSE, errors |-> <<>>, threats |-> <<>>,
   overallStatus |-> "none", scannedFiles |-> 0]

\* overallStatus: threats.length > 0 ? 'UNSAFE' : 'SAFE'
OverallStatus(th) == IF Len(th) > 0 THEN "UNSAFE" ELSE "SAFE"

\* the result of the try block
CompletedResult(errs, th, fs) ==
  [scanCompleted |-> TRUE, errors |-> errs, threats |-> th,
   overallStatus |-> OverallStatus(th), scannedFiles |-> Len(fs)]

\* a catch block that keeps the scan marked as completed
FailedResult_Completed(errs) ==
  [scanCompleted |-> TRUE, errors |-> errs, threats |-> <<>>,
   overallStatus |-> "UNSAFE", scannedFiles |-> 0]

\* the result of the catch block
FailedResult(errs) ==
  [scanCompleted |-> FALSE, errors |-> errs, threats |-> <<>>,
   overallStatus |-> "UNSAFE", scannedFiles |-> 0]

\* const repositoryFile = { ...file, content }: the FileMetadata properties
\* and content; no extension and no isBinary property
RepositoryFile(file) ==
  [path |-> file.path, relativePath |-> file.relativePath, size |-> file.size,
   content |-> file.content, extension |-> "undefined", isBinary |-> FALSE,
   throwsIn |-> "none"]

\* cloneRepository: the outcomes, and the message of the Error thrown
CloneFailures == {"invalid_url", "auth", "not_found", "timeout", "failed"}

CloneErrorMessage(outcome) ==
  CASE outcome = "invalid_url" -> "Invalid repository URL provided"
    [] outcome = "auth" -> "Repository is private or requires authentication"
    [] outcome = "not_found" -> "Repository not found or access denied"
    [] outcome = "timeout" -> "Repository cloning timed out"
    [] OTHER -> "Failed to clone repository. Please check the URL and try again."

\* the temporary directory after cloneRepository: the URL check throws
\* before fs.mkdtemp; a failed clone removes the directory in its catch
\* block; a successful one leaves it to the cleanup function it returns
ClonedTempDir(outcome) ==
  IF outcome = "ok" THEN "exists"
  ELSE IF outcome = "invalid_url" THEN "none"
  ELSE "removed"

\* await cloneRepository(...)
Clone ==
  /\ pc = "clone"
  /\ IF repo.clone = "ok"
     THEN /\ pc' = "discover"
          /\ UNCHANGED <<errors, result>>
     ELSE /\ errors' = Append(errors, CloneErrorMessage(repo.clone))
          /\ result' = FailedResult(errors')
          /\ pc' = "done"
  /\ tempDir' = ClonedTempDir(repo.clone)
  /\ UNCHANGED <<repo, scanResult, ri, files, si, threats, cancelled,
                 travOptions, traversal>>
  /\ UNCHANGED unitVars

\* await scanFileSystem(repository.path, {...})
Discover ==
  /\ pc = "discover"
  /\ traversal' = traverseDirectory(repo.root, travOptions)
  /\ scanResult' = scanFileSystem(repo.root, travOptions)
  /\ ri' = 1
  /\ files' = <<>>
  /\ pc' = "read"
  /\ UNCHANGED <<repo, si, threats, errors, result, cancelled,
                 tempDir, travOptions>>
  /\ UNCHANGED unitVars

\* one iteration of for (const file of scanResult.files)
ReadFile ==
  /\ pc = "read"
  /\ ri <= Len(scanResult.files)
  /\ LET file == scanResult.files[ri]
     IN  IF ~file.isFile \/ IncludesDotGit(file.path)
         THEN /\ ri' = ri + 1
              /\ UNCHANGED <<files, errors, result, pc>>
         ELSE IF file.readable
         THEN /\ files' = Append(files, RepositoryFile(file))
              /\ ri' = ri + 1
              /\ UNCHANGED <<errors, result, pc>>
         ELSE \* readFile rejects: the catch block of scanRepository
              /\ errors' = Append(errors, "readFile failed")
              /\ result' = FailedResult(errors')
              /\ pc' = "done"
              /\ UNCHANGED <<files, ri>>
  /\ UNCHANGED <<repo, scanResult, si, threats, cancelled,
                 tempDir, travOptions, traversal>>
  /\ UNCHANGED unitVars

\* new CodeExecutionScanner(); codeExecutionScanner.scan(files)
StartScan ==
  /\ pc = "read"
  /\ ri > Len(scanResult.files)
  /\ pc' = "scan"
  /\ si' = 1
  /\ threats' = <<>>
  /\ UNCHANGED <<repo, scanResult, ri, files, errors, result, cancelled,
                 tempDir, travOptions, traversal>>
  /\ UNCHANGED unitVars

\* one iteration of for (const file of files) in scan()
ScanFile ==
  /\ pc = "scan"
  /\ si <= Len(files)
  /\ threats' = ScanOneFile(threats, files[si])
  /\ si' = si + 1
  /\ UNCHANGED <<pc, repo, scanResult, ri, files, errors, result, cancelled,
                 tempDir, travOptions, traversal>>
  /\ UNCHANGED unitVars

\* scan() returns; threats.push(...codeExecutionThreats); return {...}
ReturnResult ==
  /\ pc = "scan"
  /\ si > Len(files)
  /\ result' = CompletedResult(errors, threats, files)
  /\ pc' = "done"
  /\ UNCHANGED <<repo, scanResult, ri, files, si, threats, errors, cancelled,
                 tempDir, travOptions, traversal>>
  /\ UNCHANGED unitVars

\* the environment raises a cancellation while the session runs; no line
\* of scanRepository reads it (options.timeout goes to cloneRepository only)
Cancel ==
  /\ pc # "done"
  /\ ~cancelled
  /\ cancelled' = TRUE
  /\ UNCHANGED <<pc, repo, scanResult, ri, files, si, threats, errors, result,
                 tempDir, travOptions, traversal>>
  /\ UNCHANGED unitVars

\* ------------------------------------------------------------------------
\* The repositories of the model
\* ------------------------------------------------------------------------
Stmt(x) == [w |-> "stmt", x |-> x]

RepoFileEntries ==
  {FileEntry(Seg("a", "ts"), 10, Source(<<Stmt("evalId")>>), r) : r \in BOOLEAN}
    \cup {FileEntry(Seg("b", "ts"), 10, Source(<<Stmt("log")>>), r) : r \in BOOLEAN}
    \cup {FileEntry(Seg("w", "js"), 10, Source(<<Stmt("fnLit")>>), TRUE),
          FileEntry(Seg("bad", "ts"), 10, Malformed, TRUE),
          FileEntry(Seg("README", "md"), 10, Source(<<>>), TRUE)}

RepoDirEntries ==
  {DirEntry(Seg(".github", ""), TRUE,
            <<FileEntry(Seg("x", "ts"), 10, Source(<<Stmt("exec")>>), TRUE)>>),
   DirEntry(Seg("src", ""), TRUE,
            <<DirEntry(Seg(".hidden", ""), TRUE,
                <<FileEntry(Seg("y", "ts"), 10, Source(<<Stmt("exec")>>), TRUE)>>),
              FileEntry(Seg("c", "ts"), 10, Source(<<Stmt("spawn")>>), TRUE)>>),
   DirEntry(Seg("locked", ""), FALSE, <<>>)}

RepoEntries == RepoFileEntries \cup RepoDirEntries

\* listings of at most n entries with distinct names
Listings(n) ==
  UNION {{l \in [1..k -> RepoEntries] :
            \A i, j \in 1..k : i # j => l[i].name # l[j].name} : k \in 0..n}

Repos ==
  {[clone |-> "ok", root |-> DirEntry(Seg("", ""), TRUE, l)] : l \in Listings(MaxRepoFiles)}
    \cup {[clone |-> c, root |-> DirEntry(Seg("", ""), TRUE, <<>>)] : c \in CloneFailures}

NoRepo == [clone |-> "ok", root |-> DirEntry(Seg("", ""), TRUE, <<>>)]
NoScanResult == [files |-> <<>>, errors |-> <<>>]

Init ==
  /\ pc = "clone"
  /\ repo \in Repos
  /\ scanResult = NoScanResult
  /\ ri = 0
  /\ files = <<>>
  /\ si = 0
  /\ threats = <<>>
  /\ errors = <<>>
  /\ result = NoResult
  /\ cancelled = FALSE
  /\ tempDir = "none"
  /\ travOptions = ScanOptions
  /\ traversal = EmptyTraversal
  /\ UnitsIdle

Next == Clone \/ Discover \/ ReadFile \/ StartScan \/ ScanFile \/ ReturnResult \/ Cancel

Spec == Init /\ [][Next]_vars

\* ------------------------------------------------------------------------
\* The scanner stage on its own: scanRepository from the construction of
\* the scanner on, with files that carry the extension and isBinary
\* properties of a RepositoryFile, as the callers of scan() in the unit
\* tests pass them.
\* ------------------------------------------------------------------------
\* the statements after the first of a text: plain statements of two
\* rules, and one no rule matches
FollowStmts == {Stmt(x) : x \in {"evalId", "exec", "log"}}

Texts ==
  {<<>>} \cup UNION {{<<s>> \o t : s \in Stmts, t \in [1..k -> FollowStmts]}
                       : k \in 0..(MaxStmts - 1)}

FileKinds == {"code", "malformed", "empty", "text", "binary"}

\* the contents of files of the given kinds, the code files sharing the
\* statements of the text ss in order
RECURSIVE Split(_, _)
Split(ss, kinds) ==
  IF kinds = <<>> THEN (IF ss = <<>> THEN {<<>>} ELSE {})
  ELSE IF Head(kinds) = "code"
  THEN UNION {{<<Source(SubSeq(ss, 1, j))>> \o r :
                 r \in Split(SubSeq(ss, j + 1, Len(ss)), Tail(kinds))}
                : j \in 0..Len(ss)}
  ELSE {<<IF Head(kinds) = "malformed" THEN Malformed
          ELSE IF Head(kinds) = "empty" THEN Empty
          ELSE Source(<<Stmt("evalId")>>)>> \o r : r \in Split(ss, Tail(kinds))}

FileBases == <<"f1", "f2", "f3", "f4">>

TestFile(i, kind, content) ==
  LET ext == IF kind = "text" THEN "txt"
             ELSE IF UsesJSX(content) THEN "tsx" ELSE "ts"
  IN  [path |-> <<Seg(FileBases[i], ext)>>, relativePath |-> <<Seg(FileBases[i], ext)>>,
       size |-> 10, content |-> content,
       extension |-> IF ext = "txt" THEN ".txt" ELSE IF ext = "tsx" THEN ".tsx" ELSE ".ts",
       isBinary |-> (kind = "binary"), throwsIn |-> "none"]

InitScan ==
  /\ pc = "scan"
  /\ repo = NoRepo
  /\ scanResult = NoScanResult
  /\ ri = 0
  /\ \E n \in 1..MaxFiles :
       \E kinds \in [1..n -> FileKinds] :
         \E ss \in Texts :
           \E cs \in Split(ss, kinds) :
             files = [i \in 1..n |-> TestFile(i, kinds[i], cs[i])]
  /\ si = 1
  /\ threats = <<>>
  /\ errors = <<>>
  /\ result = NoResult
  /\ cancelled = FALSE
  /\ tempDir = "exists"
  /\ travOptions = ScanOptions
  /\ traversal = EmptyTraversal
  /\ UnitsIdle

NextScan == ScanFile \/ ReturnResult

SpecScan == InitScan /\ [][NextScan]_vars

\* ------------------------------------------------------------------------
\* The scanner stage on one file of Function-constructor calls with zero to
\* three arguments, literal and not.
\* ------------------------------------------------------------------------
FunctionExprs == {"fnLit", "fnId", "fnNone", "fnLitId", "fnLit2", "fnIds3", "log"}

FunctionTexts == UNION {[1..k -> {Stmt(x) : x \in FunctionExprs}] : k \in 1..MaxStmts}

InitFunction ==
  /\ pc = "scan"
  /\ repo = NoRepo
  /\ scanResult = NoScanResult
  /\ ri = 0
  /\ \E ss \in FunctionTexts : files = <<TestFile(1, "code", Source(ss))>>
  /\ si = 1
  /\ threats = <<>>
  /\ errors = <<>>
  /\ result = NoResult
  /\ cancelled = FALSE
  /\ tempDir = "exists"
  /\ travOptions = ScanOptions
  /\ traversal = EmptyTraversal
  /\ UnitsIdle

SpecFunction == InitFunction /\ [][NextScan]_vars

\* ------------------------------------------------------------------------
\* traverseDirectory on its own, over working trees with hidden entries,
\* nested directories, symbolic links and entries fs.stat fails on, under
\* every combination of the traversal options.
\* ------------------------------------------------------------------------
TravFile(base, ext) == FileEntry(Seg(base, ext), 10, Source(<<Stmt("log")>>), TRUE)

TravEntries ==
  {TravFile("a", "ts"),
   TravFile(".hidden", "ts"),
   DirEntry(Seg(".github", ""), TRUE, <<TravFile("x", "ts")>>),
   DirEntry(Seg("src", ""), TRUE,
            <<DirEntry(Seg("lib", ""), TRUE,
                <<DirEntry(Seg("deep", ""), TRUE, <<TravFile("z", "ts")>>),
                  DirEntry(Seg("locked", ""), FALSE, <<>>),
                  TravFile("u", "ts")>>),
              DirEntry(Seg(".hidden", ""), TRUE, <<TravFile("y", "ts")>>),
              UnstatableEntry(Seg("gone", "ts"), FALSE),
              TravFile("c", "ts")>>),
   DirEntry(Seg("locked", ""), FALSE, <<>>),
   LinkEntry(Seg("ln", "ts"), TravFile("secret", "bin"),
             <<Seg("data", ""), Seg("secret", "bin")>>),
   LinkEntry(Seg("lnd", ""), DirEntry(Seg("out", ""), TRUE, <<TravFile("v", "ts")>>),
             <<Seg("out", "")>>),
   UnstatableEntry(Seg("dangling", "ts"), TRUE),
   UnstatableEntry(Seg("gone", "ts"), FALSE)}

TravListings(n) ==
  UNION {{l \in [1..k -> TravEntries] :
            \A i, j \in 1..k : i # j => l[i].name # l[j].name} : k \in 0..n}

TravRepos ==
  {[clone |-> "ok", root |-> DirEntry(Seg("", ""), TRUE, l)]
     : l \in TravListings(MaxRepoFiles)}
    \cup {[clone |-> "ok", root |-> DirEntry(Seg("", ""), FALSE, <<>>)]}

TravOptionSets ==
  [maxDepth : (-1..MaxTravDepth) \cup {DefaultMaxDepth},
   includeHidden : BOOLEAN,
   fileExtensions : {{"ts", "js", "jsx", "tsx"}, {}},
   maxFileSize : {ScanMaxFileSize},
   followSymlinks : BOOLEAN]

InitTraverse ==
  /\ pc = "traverse"
  /\ repo \in TravRepos
  /\ travOptions \in TravOptionSets
  /\ scanResult = NoScanResult
  /\ ri = 0
  /\ files = <<>>
  /\ si = 0
  /\ threats = <<>>
  /\ errors = <<>>
  /\ result = NoResult
  /\ cancelled = FALSE
  /\ tempDir = "exists"
  /\ traversal = EmptyTraversal
  /\ UnitsIdle

\* await traverseDirectory(rootPath, options)
Traverse ==
  /\ pc = "traverse"
  /\ traversal' = traverseDirectory(repo.root, travOptions)
  /\ pc' = "traversed"
  /\ UNCHANGED <<repo, scanResult, ri, files, si, threats, errors, result,
                 cancelled, tempDir, travOptions>>
  /\ UNCHANGED unitVars

NextTraverse == Traverse

SpecTraverse == InitTraverse /\ [][NextTraverse]_vars

\* ------------------------------------------------------------------------
\* parseAST on its own: every content under every kind of path.
\* ------------------------------------------------------------------------
ParseContents == {Source(ss) : ss \in Texts} \cup {Malformed, Empty, NonString}

ParsePaths == {<<Seg("f", e)>> : e \in {"ts", "tsx", "js", "jsx", "txt", "md", ""}}

SessionIdle ==
  /\ pc = "idle"
  /\ repo = NoRepo
  /\ scanResult = NoScanResult
  /\ ri = 0
  /\ files = <<>>
  /\ si = 0
  /\ threats = <<>>
  /\ errors = <<>>
  /\ result = NoResult
  /\ cancelled = FALSE
  /\ tempDir = "none"
  /\ travOptions = ScanOptions
  /\ traversal = EmptyTraversal

sessionVars == <<pc, repo, scanResult, ri, files, si, threats, errors, result,
                 cancelled, tempDir, travOptions, traversal>>

InitParse ==
  /\ SessionIdle
  /\ \E c \in ParseContents, p \in ParsePaths :
       parse = [pc |-> "call", content |-> c, filePath |-> p]
  /\ mon = Idle
  /\ rd = Idle
  /\ plf = Idle
  /\ an = Idle
  /\ form = Idle

\* await parseAST(content, filePath)
ParseCall ==
  /\ parse.pc = "call"
  /\ parse' = [pc |-> "returned", content |-> parse.content,
               filePath |-> parse.filePath,
               result |-> parseAST(parse.content, parse.filePath)]
  /\ UNCHANGED <<mon, rd, plf, an, form>>
  /\ UNCHANGED sessionVars

NextParse == ParseCall

SpecParse == InitParse /\ [][NextParse]_vars

\* ------------------------------------------------------------------------
\* The scanner stage with an exception raised inside a rule: a first file
\* in which the rule throwsIn raises it, followed by a second file.
\* ------------------------------------------------------------------------
FaultRules == {"none", "eval_usage", "shell_execution"}

FaultTexts == UNION {[1..k -> FollowStmts] : k \in 1..MaxStmts}

InitFault ==
  /\ pc = "scan"
  /\ repo = NoRepo
  /\ scanResult = NoScanResult
  /\ ri = 0
  /\ \E ss \in FaultTexts :
       \E r \in FaultRules :
         files = <<[TestFile(1, "code", Source(ss)) EXCEPT !.throwsIn = r],
                   TestFile(2, "code", Source(<<Stmt("exec")>>))>>
  /\ si = 1
  /\ threats = <<>>
  /\ errors = <<>>
  /\ result = NoResult
  /\ cancelled = FALSE
  /\ tempDir = "exists"
  /\ travOptions = ScanOptions
  /\ traversal = EmptyTraversal
  /\ UnitsIdle

SpecFault == InitFault /\ [][NextScan]_vars

\* ------------------------------------------------------------------------
\* Properties of the scan session
\* ------------------------------------------------------------------------
\* the status the severities of a threats list call for
SeverityStatus(th) ==
  IF \E i \in 1..Len(th) : th[i].severity = "CRITICAL" THEN "UNSAFE"
  ELSE IF Len(th) > 0 THEN "WARNING"
  ELSE "SAFE"

FailsToParse(file) ==
  /\ file.extension \in {".ts", ".tsx", ".js", ".jsx"}
  /\ ~file.isBinary
  /\ ~parseAST(file.content, file.path).success

ThreatsOfFile(th, file) == SelectSeq(th, LAMBDA t : t.file = file.path)

\* C2: in a completed session every file that fails to parse contributes
\* no Finding and exactly one entry of the errors list.
C2_ParseFailureRecorded ==
  (pc = "done" /\ result.scanCompleted)
    => /\ Len(result.errors) = Cardinality({i \in 1..Len(files) : FailsToParse(files[i])})
       /\ \A i \in 1..Len(files) :
            FailsToParse(files[i]) => ThreatsOfFile(result.threats, files[i]) = <<>>

\* the discovered files the read loop reads
ToRead(fs) == SelectSeq(fs, LAMBDA f : f.isFile /\ ~IncludesDotGit(f.path))

\* C3: when reading one discovered file fails, the session still returns
\* scanCompleted = true, and every other discovered file is read and scanned.
C3_ReadFailureIsPerFile ==
  (pc = "done" /\ repo.clone = "ok")
    => /\ result.scanCompleted
       /\ result.scannedFiles
            = Len(SelectSeq(ToRead(scanResult.files), LAMBDA f : f.readable))

\* the tree of a.ts: eval(userInput) and b.ts: console.log("hi")
TwoFileRepo ==
  [clone |-> "ok",
   root |-> DirEntry(Seg("", ""), TRUE,
              <<FileEntry(Seg("a", "ts"), 10, Source(<<Stmt("evalId")>>), TRUE),
                FileEntry(Seg("b", "ts"), 10, Source(<<Stmt("log")>>), TRUE)>>)]

\* C4: the session over the tree of a.ts and b.ts returns exactly one
\* Finding, CRITICAL, eval_usage, in a.ts, and overallStatus UNSAFE.
C4_TwoFileScenario ==
  (pc = "done" /\ repo = TwoFileRepo)
    => /\ result.scanCompleted
       /\ Len(result.threats) = 1
       /\ result.threats[1].severity = "CRITICAL"
       /\ result.threats[1].subcategory = "eval_usage"
       /\ result.threats[1].file = <<Seg("a", "ts")>>
       /\ result.overallStatus = "UNSAFE"

\* C5: once a cancellation was raised, no file is read and no file is
\* scanned any more.
C5_NoFileWorkAfterCancel ==
  [][cancelled => (Len(files') = Len(files) /\ (pc = "scan" => si' = si))]_vars

\* ------------------------------------------------------------------------
\* Properties of the scanner
\* ------------------------------------------------------------------------
\* scan() parses the file: it is not skipped and parseAST succeeds
Parses(file) ==
  /\ file.extension \in {".ts", ".tsx", ".js", ".jsx"}
  /\ ~file.isBinary
  /\ parseAST(file.content, file.path).success

IsCallOf(n, names) ==
  n.type = "CallExpression" /\ HasNamedCallee(n) /\ n.callee.name \in names

\* the eval(...) calls of the node sequence of a file, in order
EvalCalls(file) ==
  SelectSeq(parseAST(file.content, file.path).nodes, LAMBDA n : IsCallOf(n, {"eval"}))

ThreatsOfRule(th, file, sub) ==
  SelectSeq(th, LAMBDA t : t.file = file.path /\ t.subcategory = sub)

\* C6: every eval finding is CRITICAL; a literal first argument gives
\* isDynamic = false and riskLevel medium; an identifier, template
\* literal, binary, call or member expression gives isDynamic = true and
\* riskLevel high.
C6_EvalDynamism ==
  pc = "done" =>
    \A k \in 1..Len(files) :
      Parses(files[k]) =>
        LET calls == EvalCalls(files[k])
            found == ThreatsOfRule(threats, files[k], "eval_usage")
        IN  \A i \in 1..Len(found) :
              /\ found[i].severity = "CRITICAL"
              /\ i <= Len(calls) /\ Len(calls[i].arguments) > 0 =>
                   LET argType == calls[i].arguments[1].type
                   IN  /\ argType = "Literal" =>
                            /\ ~found[i].details.isDynamic
                            /\ found[i].details.riskLevel = "medium"
                       /\ argType \in {"Identifier", "TemplateLiteral", "BinaryExpression",
                                       "CallExpression", "MemberExpression"} =>
                            /\ found[i].details.isDynamic
                            /\ found[i].details.riskLevel = "high"

\* every node of a tree
RECURSIVE AllNodes(_), AllNodesOfKids(_)
AllNodes(n) == <<n>> \o AllNodesOfKids(n.kids)
AllNodesOfKids(ks) ==
  IF ks = <<>> THEN <<>> ELSE AllNodes(Head(ks).node) \o AllNodesOfKids(Tail(ks))

\* the call sites of exec, spawn, execSync, spawnSync in a tree
ShellCallSites(tree) ==
  SelectSeq(AllNodes(tree), LAMBDA n :
    /\ n.type = "CallExpression"
    /\ KidOf(n, "callee").type = "Identifier"
    /\ KidOf(n, "callee").name \in ShellNames)

\* C7: in a file that parses, every call site of exec, spawn, execSync or
\* spawnSync has exactly one shell_execution Finding, CRITICAL.
C7_OneFindingPerShellCall ==
  pc = "done" =>
    \A k \in 1..Len(files) :
      Parses(files[k]) =>
        LET found == ThreatsOfRule(threats, files[k], "shell_execution")
        IN  /\ Len(found) = Len(ShellCallSites(TreeOf(files[k].content.stmts)))
            /\ \A i \in 1..Len(found) : found[i].severity = "CRITICAL"

CountOfType(ns, t) == Len(SelectSeq(ns, LAMBDA n : n.type = t))

\* C8: the node sequence of parseAST holds every node of the parsed tree
\* exactly once.
C8_EveryNodeEmittedOnce ==
  \A k \in 1..Len(files) :
    k < si =>
    LET parsed == parseAST(files[k].content, files[k].path)
        tree == AllNodes(TreeOf(files[k].content.stmts))
    IN  parsed.success =>
          /\ Len(parsed.nodes) = Len(tree)
          /\ \A i \in 1..Len(tree) :
               CountOfType(parsed.nodes, tree[i].type) = CountOfType(tree, tree[i].type)

\* C9 as stated: the Findings of a file are in source order.
C9_SourceOrder ==
  pc = "done" =>
    \A k \in 1..Len(files) :
      LET found == ThreatsOfFile(threats, files[k])
      IN  \A i, j \in 1..Len(found) : i < j => found[i].line <= found[j].line

\* the place of a rule in analyzeASTNodes
RuleRank(sub) ==
  CASE sub = "eval_usage" -> 1
    [] sub = "dynamic_import" -> 2
    [] sub = "function_constructor" -> 3
    [] sub = "timer_code_injection" -> 4
    [] sub = "shell_execution" -> 5

\* C9: the Findings of a file are grouped by rule, in the order eval,
\* dynamic import, Function constructor, timer, shell execution; the
\* Findings of one rule are in source order.
C9_RuleThenSourceOrder ==
  pc = "done" =>
    \A k \in 1..Len(files) :
      LET found == ThreatsOfFile(threats, files[k])
      IN  \A i, j \in 1..Len(found) :
            i < j =>
              \/ RuleRank(found[i].subcategory) < RuleRank(found[j].subcategory)
              \/ /\ found[i].subcategory = found[j].subcategory
                 /\ found[i].line <= found[j].line

\* a file whose Findings of two rules are not in source order, and a file
\* with two Findings of one rule
C9_Witness ==
  /\ pc = "done"
  /\ \E k \in 1..Len(files) :
       LET found == ThreatsOfFile(threats, files[k])
       IN  \E i, j \in 1..Len(found) : i < j /\ found[i].line > found[j].line
  /\ \E k \in 1..Len(files) :
       LET found == ThreatsOfFile(threats, files[k])
       IN  \E i, j \in 1..Len(found) :
             /\ i < j
             /\ found[i].subcategory = found[j].subcategory
             /\ found[i].line < found[j].line

\* C10: the Findings of a file in a call of scan() with other files are
\* the Findings of scan() called on that file alone.
C10_ScanIndependentOfOtherFiles ==
  pc \in {"scan", "done"} =>
    \A k \in 1..Len(files) :
      k < si => ThreatsOfFile(threats, files[k]) = ScanOneFile(<<>>, files[k])

\* a file with Findings scanned in one call after another file that has
\* Findings of its own
C10_Witness ==
  /\ pc = "done"
  /\ \E a, b \in 1..Len(files) :
       /\ a < b
       /\ ThreatsOfFile(threats, files[a]) # <<>>
       /\ ThreatsOfFile(threats, files[b]) # <<>>

\* ------------------------------------------------------------------------
\* Errors of the session
\* ------------------------------------------------------------------------
\* C11: when the session completes, every error traverseDirectory recorded
\* during file discovery is one of the errors of the session result.
C11_TraversalErrorsReported ==
  pc = "done" /\ result.scanCompleted =>
    \A i \in 1..Len(traversal.errors) :
      \E j \in 1..Len(result.errors) : result.errors[j] = traversal.errors[i]

\* C12: when cloneRepository fails, scanRepository returns a result with
\* scanCompleted false, exactly one error, no threats and scannedFiles 0.
C12_AcquisitionFailureResult ==
  pc = "done" /\ repo.clone \in CloneFailures =>
    /\ result.scanCompleted = FALSE
    /\ Len(result.errors) = 1
    /\ result.errors[1] = CloneErrorMessage(repo.clone)
    /\ result.threats = <<>>
    /\ result.scannedFiles = 0

\* scanRepository returned after a clone that timed out
C12_Witness ==
  /\ pc = "done"
  /\ repo.clone = "timeout"
  /\ result.errors = <<"Repository cloning timed out">>

\* C13: when scanRepository has returned, the temporary clone directory
\* does not exist.
C13_TempDirRemovedOnReturn ==
  pc = "done" => tempDir # "exists"

\* C14: when a rule raises an exception on a node of a file, the Findings
\* of the other rules on that file are still reported.
C14_OtherRulesStillReported ==
  \A k \in 1..Len(files) :
    k < si /\ files[k].throwsIn # "none" /\ Parses(files[k]) =>
      ThreatsOfFile(threats, files[k])
        = SelectSeq(analyzeASTNodes(parseAST(files[k].content, files[k].path).nodes,
                                    files[k]),
                    LAMBDA t : t.subcategory # files[k].throwsIn)

\* C15: every Finding carries its node's line number and a code excerpt
\* that holds the matched line, and context lines when the file has any,
\* each line of the excerpt numbered with its own line number in the file.
C15_ExcerptWithLineNumbers ==
  \A i \in 1..Len(threats) :
    \A k \in 1..Len(files) :
      files[k].path = threats[i].file =>
        LET lines == LinesOf(files[k].content)
            excerpt == threats[i].code.excerpt
        IN  /\ threats[i].line \in 1..Len(lines)
            /\ \E j \in 1..Len(excerpt) : excerpt[j].lineNumber = threats[i].line
            /\ Len(lines) > 1 => Len(excerpt) > 1
            /\ \A j \in 1..Len(excerpt) :
                 /\ excerpt[j].lineNumber \in 1..Len(lines)
                 /\ excerpt[j].text = lines[excerpt[j].lineNumber]

\* ------------------------------------------------------------------------
\* Traversal
\* ------------------------------------------------------------------------
SeqToSet(q) == {q[i] : i \in 1..Len(q)}

\* C16: with includeHidden false, no file traverseDirectory returns has a
\* relative path with a segment, the first included, that starts with '.'.
C16_NoHiddenFileReturned ==
  pc = "traversed" /\ ~travOptions.includeHidden =>
    \A f \in SeqToSet(traversal.files) :
      \A i \in 1..Len(f.relativePath) : ~SegHidden(f.relativePath[i])

\* the entries of the root directory that are symbolic links
RootLinks == {e \in SeqToSet(repo.root.entries) : e.link}

\* C17: without followSymlinks every symbolic link is recorded as a link
\* and nothing of its target is returned; with followSymlinks a link to an
\* includable file is returned under its real path, with the metadata of
\* the resolved file.
C17_SymlinkHandling ==
  pc = "traversed" /\ travOptions.maxDepth >= 0 =>
    \A e \in RootLinks :
      IF ~travOptions.followSymlinks
      THEN /\ \E m \in SeqToSet(traversal.files) \cup SeqToSet(traversal.directories) :
                m.path = <<e.name>> /\ m.isSymbolicLink
           /\ \A m \in SeqToSet(traversal.files) :
                m.path[1] = e.name => m.isSymbolicLink
      ELSE (e.statOk /\ e.kind = "file"
              /\ shouldIncludeFile(getFileMetadata(e, e.realPath), travOptions))
             <=> (\E m \in SeqToSet(traversal.files) :
                    m = getFileMetadata(e, e.realPath))

\* the failures traverse meets on the items of a directory at the given
\* depth: fs.stat failing on an entry, fs.readdir failing on a directory
RECURSIVE FailuresIn(_, _, _)
FailuresIn(items, depth, maxDepth) ==
  IF items = <<>> THEN 0
  ELSE LET e == Head(items)
           here == IF ~e.statOk THEN 1
                   ELSE IF e.kind = "dir" /\ depth + 1 <= maxDepth
                   THEN IF e.listOk THEN FailuresIn(e.entries, depth + 1, maxDepth)
                        ELSE 1
                   ELSE 0
       IN  here + FailuresIn(Tail(items), depth, maxDepth)

\* C18: traverseDirectory returns, with one error for each failure it met
\* and with every includable file of the root directory.
C18_EveryFailureRecorded ==
  pc = "traversed" /\ travOptions.maxDepth >= 0 /\ repo.root.listOk =>
    /\ Len(traversal.errors)
         = FailuresIn(repo.root.entries, 0, travOptions.maxDepth)
    /\ \A e \in SeqToSet(repo.root.entries) :
         (e.statOk /\ e.kind = "file" /\ ~e.link
            /\ shouldIncludeFile(getFileMetadata(e, <<e.name>>), travOptions))
           => \E m \in SeqToSet(traversal.files) : m.path = <<e.name>>

\* the paths of the directories that can be reached from a directory at
\* currentPath with the given items, down to depth d
RECURSIVE ReachableDirs(_, _, _)
ReachableDirs(items, currentPath, d) ==
  UNION {IF e.statOk /\ e.kind = "dir" /\ Len(currentPath) + 1 <= d
         THEN {Append(currentPath, e.name)}
                \cup (IF e.listOk
                      THEN ReachableDirs(e.entries, Append(currentPath, e.name), d)
                      ELSE {})
         ELSE {} : e \in SeqToSet(items)}

DirsWithin(d) ==
  IF d < 0 THEN {}
  ELSE {<<>>} \cup (IF repo.root.listOk
                    THEN ReachableDirs(repo.root.entries, <<>>, d) ELSE {})

\* C19: traverseDirectory with maximum depth d calls fs.readdir once on
\* every reachable directory of depth at most d, the root at depth 0, and
\* on no other directory.
C19_DepthLimit ==
  pc = "traversed" =>
    /\ \A p \in SeqToSet(traversal.listed) : Len(p) <= travOptions.maxDepth
    /\ SeqToSet(traversal.listed) = DirsWithin(travOptions.maxDepth)
    /\ Len(traversal.listed) = Cardinality(DirsWithin(travOptions.maxDepth))

\* a traversal with maximum depth 1 of a tree with directories at depth 2
\* and 3: src is listed, src/lib is recorded and not listed
C19_Witness ==
  /\ pc = "traversed"
  /\ travOptions.maxDepth = 1
  /\ <<Seg("src", "")>> \in SeqToSet(traversal.listed)
  /\ \E m \in SeqToSet(traversal.directories) : m.path = <<Seg("src", ""), Seg("lib", "")>>
  /\ <<Seg("src", ""), Seg("lib", "")>> \notin SeqToSet(traversal.listed)

\* ------------------------------------------------------------------------
\* parseAST as a total function
\* ------------------------------------------------------------------------
ParseResultOf(file) == parseAST(file.content, file.path)

\* C20: for every content and path parseAST returns either success with a
\* node sequence, or failure with an error text and no node sequence.
C20_ParseResultIsTyped ==
  \A k \in 1..Len(files) :
    LET r == ParseResultOf(files[k])
    IN  \/ /\ r.success
           /\ "nodes" \in DOMAIN r
           /\ Len(r.nodes) > 0
           /\ "error" \notin DOMAIN r
        \/ /\ ~r.success
           /\ "error" \in DOMAIN r
           /\ r.error # ""
           /\ "nodes" \notin DOMAIN r

\* a scanner call that parsed one file and was refused another
C20_Witness ==
  /\ pc = "done"
  /\ \E a, b \in 1..Len(files) :
       /\ files[a].content.kind = "malformed"
       /\ ~files[a].isBinary
       /\ ~ParseResultOf(files[a]).success
       /\ ParseResultOf(files[b]).success
       /\ ThreatsOfFile(threats, files[b]) # <<>>

\* ------------------------------------------------------------------------
\* readFileWithMemoryMonitoring and streamFileContent
\* (src/lib/utils/file-type-utils.ts): one call on one file.
\* ------------------------------------------------------------------------
MiB == 1048576
\* metadata.size > 10 * 1024 * 1024
StreamThreshold == 10 * MiB
\* maxMemoryUsage = 100 * 1024 * 1024
DefaultMaxMemoryUsage == 100 * MiB

\* process.memoryUsage().heapUsed as a call may find it: below, at and
\* above the default ceiling
MemSamples == {50 * MiB, 100 * MiB, 150 * MiB}
ReadSizes == {0, MiB, 10 * MiB, 11 * MiB, 12 * MiB}
\* options.chunkSize (highWaterMark)
ChunkSizes == {4 * MiB, 8 * MiB}

\* the chunks a read stream with this highWaterMark delivers for a file
RECURSIVE ChunksOf(_, _)
ChunksOf(size, chunkSize) ==
  IF size = 0 THEN <<>>
  ELSE IF size <= chunkSize THEN <<size>>
  ELSE <<chunkSize>> \o ChunksOf(size - chunkSize, chunkSize)

checkMemoryLimit(used, maxUsage) == used > maxUsage

Pending == [kind |-> "pending"]
Rejected(msg) == [kind |-> "rejected", error |-> msg]
Resolved(content, n) == [kind |-> "resolved", content |-> content, chunks |-> n]
\* resolve and reject of a promise that is already settled do nothing
Settle(outcome, new) == IF outcome = Pending THEN new ELSE outcome

InitialMemoryTooHigh_Never(used, maxMemoryUsage) == FALSE

\* initialMemory.used > maxMemoryUsage
InitialMemoryTooHigh(used, maxMemoryUsage) == used > maxMemoryUsage

\* the chunk is accumulated and handed to the callbacks before the sample
\* is looked at
streamOnData_CheckAfter(s, chunk, used) ==
  LET t == [s EXCEPT !.remaining = Tail(@),
                     !.samples = Append(@, used),
                     !.chunks = Append(@, chunk),
                     !.chunkCount = @ + 1,
                     !.totalProcessed = @ + chunk,
                     !.onChunk = Append(@, <<chunk, s.totalProcessed>>),
                     !.onProgress = Append(@, <<s.totalProcessed + chunk, s.size>>),
                     !.content = @ + chunk]
  IN IF checkMemoryLimit(used, s.limit)
     THEN [t EXCEPT !.destroyed = TRUE, !.pc = "done",
                    !.outcome = Settle(@, Rejected("Memory usage limit exceeded"))]
     ELSE t

\* stream.on('data', ...) of streamFileContent; used is the sample that
\* getMemoryUsage() returns in this call of the handler
streamOnData(s, chunk, used) ==
  IF checkMemoryLimit(used, s.limit)
  THEN [s EXCEPT !.remaining = Tail(@),
                 !.samples = Append(@, used),
                 !.destroyed = TRUE,
                 !.pc = "done",
                 !.outcome = Settle(@, Rejected("Memory usage limit exceeded"))]
  ELSE [s EXCEPT !.remaining = Tail(@),
                 !.samples = Append(@, used),
                 !.chunks = Append(@, chunk),
                 !.chunkCount = @ + 1,
                 !.totalProcessed = @ + chunk,
                 !.onChunk = Append(@, <<chunk, s.totalProcessed>>),
                 !.onProgress = Append(@, <<s.totalProcessed + chunk, s.size>>),
                 !.content = @ + chunk]

ReadCall(entry, size, chunkSize, statFails) ==
  [pc |-> IF entry = "streamFileContent" THEN "streamCall" ELSE "call",
   entry |-> entry, size |-> size, chunkSize |-> chunkSize,
   limit |-> DefaultMaxMemoryUsage, statFails |-> statFails,
   initial |-> <<>>, readStarted |-> FALSE, streamStarted |-> FALSE,
   remaining |-> <<>>, samples |-> <<>>, chunks |-> <<>>, chunkCount |-> 0,
   totalProcessed |-> 0, onChunk |-> <<>>, onProgress |-> <<>>, content |-> 0,
   destroyed |-> FALSE, outcome |-> Pending]

InitRead ==
  /\ SessionIdle
  /\ \E entry \in {"readFileWithMemoryMonitoring", "streamFileContent"},
        size \in ReadSizes, chunkSize \in ChunkSizes, statFails \in BOOLEAN :
       rd = ReadCall(entry, size, chunkSize, statFails)
  /\ parse = Idle
  /\ mon = Idle
  /\ plf = Idle
  /\ an = Idle
  /\ form = Idle

readUnchanged == UNCHANGED <<parse, mon, plf, an, form>> /\ UNCHANGED sessionVars

\* const metadata = await getFileMetadata(filePath)
ReadStat ==
  /\ rd.pc = "call"
  /\ rd' = IF rd.statFails
           THEN [rd EXCEPT !.pc = "done",
                           !.outcome = Rejected("Failed to get file metadata")]
           ELSE [rd EXCEPT !.pc = "sample"]
  /\ readUnchanged

\* the initial sample and the choice between the stream and the direct read
ReadSample ==
  /\ rd.pc = "sample"
  /\ \E used \in MemSamples :
       rd' = IF InitialMemoryTooHigh(used, rd.limit)
             THEN [rd EXCEPT !.pc = "done", !.initial = <<used>>,
                             !.outcome = Rejected("Initial memory usage too high")]
             ELSE IF rd.size > StreamThreshold
             THEN [rd EXCEPT !.pc = "streamCall", !.initial = <<used>>]
             ELSE [rd EXCEPT !.pc = "reading", !.initial = <<used>>,
                             !.readStarted = TRUE]
  /\ readUnchanged

\* await fs.readFile(filePath, { encoding }), which returns or throws
ReadWhole ==
  /\ rd.pc = "reading"
  /\ \E ok \in BOOLEAN :
       rd' = IF ok
             THEN [rd EXCEPT !.pc = "done", !.content = rd.size,
                             !.outcome = Resolved(rd.size, 1)]
             ELSE [rd EXCEPT !.pc = "done",
                             !.outcome = Rejected("Failed to read file")]
  /\ readUnchanged

\* streamFileContent up to createReadStream
StreamOpen ==
  /\ rd.pc = "streamCall"
  /\ rd' = IF rd.statFails
           THEN [rd EXCEPT !.pc = "done",
                           !.outcome = Rejected("Failed to get file metadata")]
           ELSE [rd EXCEPT !.pc = "streaming", !.streamStarted = TRUE,
                           !.remaining = ChunksOf(rd.size, rd.chunkSize)]
  /\ readUnchanged

\* a 'data' event; a destroyed stream emits none
StreamData ==
  /\ rd.pc = "streaming"
  /\ ~rd.destroyed
  /\ rd.remaining # <<>>
  /\ \E used \in MemSamples : rd' = streamOnData(rd, Head(rd.remaining), used)
  /\ readUnchanged

\* the 'end' event
StreamEnd ==
  /\ rd.pc = "streaming"
  /\ ~rd.destroyed
  /\ rd.remaining = <<>>
  /\ rd' = [rd EXCEPT !.pc = "done",
                      !.outcome = Settle(@, Resolved(rd.content, rd.chunkCount))]
  /\ readUnchanged

\* the 'error' event, after which the stream is destroyed
StreamError ==
  /\ rd.pc = "streaming"
  /\ ~rd.destroyed
  /\ rd' = [rd EXCEPT !.pc = "done", !.destroyed = TRUE,
                      !.outcome = Settle(@, Rejected("Failed to stream file"))]
  /\ readUnchanged

NextRead ==
  \/ ReadStat
  \/ ReadSample
  \/ ReadWhole
  \/ StreamOpen
  \/ StreamData
  \/ StreamEnd
  \/ StreamError

SpecRead == InitRead /\ [][NextRead]_vars

\* ------------------------------------------------------------------------
\* MemoryMonitor (src/lib/utils/file-type-utils.ts): one monitor, the heap
\* usage changing between its calls.
\* ------------------------------------------------------------------------
MaxCheckpoints == 3  \* checkpoints taken after the constructor's

MonitorSamples == {10 * MiB, 50 * MiB, 150 * MiB}
\* new MemoryMonitor(maxMemory)
MonitorLimits == {25 * MiB, DefaultMaxMemoryUsage}

NoReport == [taken |-> FALSE]

\* this.checkpoints.reduce((max, c) => c.memory.used > max.used ? c.memory : max, ...)
RECURSIVE PeakOf(_, _)
PeakOf(checkpoints, max) ==
  IF checkpoints = <<>> THEN max
  ELSE PeakOf(Tail(checkpoints),
              IF Head(checkpoints) > max THEN Head(checkpoints) ELSE max)

\* the peak is the latest checkpoint
getReport_PeakIsLatest(m) ==
  [taken |-> TRUE, start |-> m.startMemory, current |-> m.usage,
   peak |-> m.checkpoints[Len(m.checkpoints)],
   checkpoints |-> Len(m.checkpoints),
   isOverLimit |-> m.usage > m.maxMemory]

\* MemoryMonitor.getReport(); MemoryInfo is reduced to its used field
getReport(m) ==
  [taken |-> TRUE, start |-> m.startMemory, current |-> m.usage,
   peak |-> PeakOf(m.checkpoints, m.startMemory),
   checkpoints |-> Len(m.checkpoints),
   isOverLimit |-> m.usage > m.maxMemory]

\* MemoryMonitor.isOverLimit()
isOverLimit(m) == m.usage > m.maxMemory

InitMonitor ==
  /\ SessionIdle
  /\ \E n \in MonitorLimits, u \in MonitorSamples :
       mon = [pc |-> "new", maxMemory |-> n, usage |-> u, startMemory |-> 0,
              checkpoints |-> <<>>, report |-> NoReport]
  /\ parse = Idle
  /\ rd = Idle
  /\ plf = Idle
  /\ an = Idle
  /\ form = Idle

monitorUnchanged == UNCHANGED <<parse, rd, plf, an, form>> /\ UNCHANGED sessionVars

\* constructor: startMemory and the 'start' checkpoint
MonitorNew ==
  /\ mon.pc = "new"
  /\ mon' = [mon EXCEPT !.pc = "live", !.startMemory = mon.usage,
                        !.checkpoints = <<mon.usage>>]
  /\ monitorUnchanged

\* the process allocates or the collector frees
MemoryChanges ==
  /\ mon.pc = "live"
  /\ \E u \in MonitorSamples \ {mon.usage} : mon' = [mon EXCEPT !.usage = u]
  /\ monitorUnchanged

\* monitor.checkpoint(name)
Checkpoint ==
  /\ mon.pc = "live"
  /\ Len(mon.checkpoints) < 1 + MaxCheckpoints
  /\ mon' = [mon EXCEPT !.checkpoints = Append(@, mon.usage)]
  /\ monitorUnchanged

\* const report = monitor.getReport()
GetReport ==
  /\ mon.pc = "live"
  /\ mon' = [mon EXCEPT !.report = getReport(mon)]
  /\ monitorUnchanged

NextMonitor ==
  \/ MonitorNew
  \/ MemoryChanges
  \/ Checkpoint
  \/ GetReport

SpecMonitor == InitMonitor /\ [][NextMonitor]_vars

\* ------------------------------------------------------------------------
\* analyzeFilesForThreats of the file-system scanner (src/unnamed/part_020):
\* the loop over the filtered files, the monitor sampled at each file.
\* ------------------------------------------------------------------------
MaxAnalysed == 3  \* files handed to analyzeFilesForThreats

\* options.memoryLimit || 200 * 1024 * 1024
DefaultMemoryLimit == 200 * MiB
\* file.size > 10 * 1024 * 1024
LargeFileSize == 10 * MiB
AnalysisSamples == {100 * MiB, 300 * MiB}

AnalysedFile(rel, size) == [relativePath |-> rel, size |-> size]

AnalysedFiles ==
  {AnalysedFile("app.js", 1024), AnalysedFile("bundle.js", 11 * MiB),
   AnalysedFile("README.md", 1024), AnalysedFile("package.json", 1024),
   AnalysedFile("yarn.lock", 1024)}

\* the DEFAULT_THREAT_RULES whose pattern matches the path, in rule order
MatchingRules(rel) ==
  CASE rel \in {"app.js", "bundle.js"} -> <<"Executable or script file detected">>
    [] rel = "yarn.lock" -> <<"Lock file detected">>
    [] OTHER -> <<>>

\* identifyFileType(file.relativePath): isDependencyFile || isLockFile
IsDependencyOrLock(rel) == rel \in {"package.json", "yarn.lock"}

\* fileType.category === 'code' && fileType.language?.includes('Script')
IsScript(rel) == rel \in {"app.js", "bundle.js"}

FsThreat(rel, description) == [filePath |-> rel, description |-> description]

RECURSIVE FsThreats(_, _)
FsThreats(rel, descriptions) ==
  IF descriptions = <<>> THEN <<>>
  ELSE <<FsThreat(rel, Head(descriptions))>> \o FsThreats(rel, Tail(descriptions))

\* analyzeDependencyFile: its own memory check, the read, the patterns
analyzeDependencyFile(a, file, depOver, depRead) ==
  IF depOver THEN a
  ELSE IF depRead = "fails"
  THEN [a EXCEPT !.errors =
          Append(@, <<"Failed to analyze dependency file", file.relativePath>>)]
  ELSE IF depRead = "suspicious"
  THEN [a EXCEPT !.threats =
          Append(@, FsThreat(file.relativePath, "eval() function usage detected"))]
  ELSE a

\* analyzeSpecificFileTypes
analyzeSpecificFileTypes(a, file, depOver, depRead) ==
  LET a1 == IF IsDependencyOrLock(file.relativePath)
            THEN analyzeDependencyFile(a, file, depOver, depRead)
            ELSE a
      a2 == IF file.size > LargeFileSize
            THEN [a1 EXCEPT !.threats =
                    Append(@, FsThreat(file.relativePath, "Large file detected"))]
            ELSE a1
  IN IF IsScript(file.relativePath)
     THEN [a2 EXCEPT !.threats =
             Append(@, FsThreat(file.relativePath, "Script file detected"))]
     ELSE a2

\* the loop ends at the first file found over the limit
analyzeOneFile_Break(a, file, over, depOver, depRead) ==
  IF over
  THEN [a EXCEPT !.errors = Append(@, <<"Memory limit exceeded while analyzing",
                                        file.relativePath>>),
                 !.overAt = @ \cup {a.i},
                 !.i = Len(a.files) + 1]
  ELSE LET a1 == [a EXCEPT !.threats =
                    @ \o FsThreats(file.relativePath, MatchingRules(file.relativePath)),
                           !.analysed = @ \cup {a.i},
                           !.i = @ + 1]
       IN analyzeSpecificFileTypes(a1, file, depOver, depRead)

\* one iteration of the loop of analyzeFilesForThreats; over is what
\* memoryMonitor.isOverLimit() returns at this file
analyzeOneFile(a, file, over, depOver, depRead) ==
  IF over
  THEN [a EXCEPT !.errors = Append(@, <<"Memory limit exceeded while analyzing",
                                        file.relativePath>>),
                 !.overAt = @ \cup {a.i},
                 !.i = @ + 1]
  ELSE LET a1 == [a EXCEPT !.threats =
                    @ \o FsThreats(file.relativePath, MatchingRules(file.relativePath)),
                           !.analysed = @ \cup {a.i},
                           !.i = @ + 1]
       IN analyzeSpecificFileTypes(a1, file, depOver, depRead)

AnalysedLists ==
  UNION {{l \in [1..k -> AnalysedFiles] : \A i, j \in 1..k : i # j => l[i] # l[j]}
           : k \in 0..MaxAnalysed}

InitAnalyze ==
  /\ SessionIdle
  /\ \E l \in AnalysedLists :
       an = [pc |-> "loop", files |-> l, i |-> 1, threats |-> <<>>, errors |-> <<>>,
             overAt |-> {}, analysed |-> {}]
  /\ parse = Idle
  /\ mon = Idle
  /\ rd = Idle
  /\ plf = Idle
  /\ form = Idle

analyzeUnchanged == UNCHANGED <<parse, mon, rd, plf, form>> /\ UNCHANGED sessionVars

AnalyzeFile ==
  /\ an.pc = "loop"
  /\ an.i <= Len(an.files)
  /\ \E used \in AnalysisSamples, depUsed \in AnalysisSamples,
        depRead \in {"fails", "suspicious", "clean"} :
       an' = analyzeOneFile(an, an.files[an.i], used > DefaultMemoryLimit,
                            depUsed > DefaultMemoryLimit, depRead)
  /\ analyzeUnchanged

\* the loop is over: analyzeFilesForThreats returns
AnalyzeReturn ==
  /\ an.pc = "loop"
  /\ an.i > Len(an.files)
  /\ an' = [an EXCEPT !.pc = "done"]
  /\ analyzeUnchanged

NextAnalyze == AnalyzeFile \/ AnalyzeReturn

SpecAnalyze == InitAnalyze /\ [][NextAnalyze]_vars

\* ------------------------------------------------------------------------
\* RepositoryInput (src/unnamed/part_007): the form state, the handlers and
\* the server action in flight.
\* ------------------------------------------------------------------------
MaxScans == 3  \* calls of scanRepository made from one mounted form

FormUrls == {"", "   ", "not-a-url", "https://github.com/user/repo",
             "git@example.com:user/repo.git"}

validateRepositoryUrl(url) ==
  IF url \in {"", "   "}
  THEN [isValid |-> FALSE, error |-> "Repository URL is required"]
  ELSE IF url \notin {"https://github.com/user/repo", "git@example.com:user/repo.git"}
  THEN [isValid |-> FALSE,
        error |-> "Please enter a valid GitHub repository URL or .git URL"]
  ELSE [isValid |-> TRUE, error |-> ""]

ControlsDisabled_Never(f) == FALSE

\* disabled={formState.isLoading} on the input and on both buttons
ControlsDisabled(f) == f.isLoading

InitForm ==
  /\ SessionIdle
  /\ form = [pc |-> "mounted", url |-> "", error |-> "", isLoading |-> FALSE,
             inFlight |-> 0, scans |-> 0, called |-> {}, completed |-> 0]
  /\ parse = Idle
  /\ mon = Idle
  /\ rd = Idle
  /\ plf = Idle
  /\ an = Idle

formUnchanged == UNCHANGED <<parse, mon, rd, plf, an>> /\ UNCHANGED sessionVars

\* handleInputChange
InputChange ==
  /\ form.pc = "mounted"
  /\ ~ControlsDisabled(form)
  /\ \E url \in FormUrls \ {form.url} :
       form' = [form EXCEPT !.url = url, !.error = ""]
  /\ formUnchanged

\* handleSubmit up to the await of scanRepository
Submit ==
  /\ form.pc = "mounted"
  /\ ~ControlsDisabled(form)
  /\ LET validation == validateRepositoryUrl(form.url)
     IN IF ~validation.isValid
        THEN form' = [form EXCEPT !.error = validation.error]
        ELSE /\ form.scans < MaxScans
             /\ form' = [form EXCEPT !.isLoading = TRUE, !.error = "",
                                     !.inFlight = @ + 1, !.scans = @ + 1,
                                     !.called = @ \cup {form.url}]
  /\ formUnchanged

\* scanRepository resolves: onSubmit and onScanComplete, then the form is reset
ScanResolves ==
  /\ form.pc = "mounted"
  /\ form.inFlight > 0
  /\ form' = [form EXCEPT !.url = "", !.error = "", !.isLoading = FALSE,
                          !.inFlight = @ - 1, !.completed = @ + 1]
  /\ formUnchanged

\* scanRepository rejects, or a callback throws: the catch block
ScanRejects ==
  /\ form.pc = "mounted"
  /\ form.inFlight > 0
  /\ form' = [form EXCEPT !.error = "scan error", !.isLoading = FALSE,
                          !.inFlight = @ - 1]
  /\ formUnchanged

NextForm ==
  \/ InputChange
  \/ Submit
  \/ ScanResolves
  \/ ScanRejects

SpecForm == InitForm /\ [][NextForm]_vars

\* ------------------------------------------------------------------------
\* processLargeFile (src/lib/utils/file-type-utils.ts): the read stream, the
\* asynchronous data handler and the processor calls it is waiting for.
\* ------------------------------------------------------------------------
\* maxMemoryUsage = 50 * 1024 * 1024
LargeFileMaxMemory == 50 * MiB
LargeFileSamples == {10 * MiB, 60 * MiB}

InitLarge ==
  /\ SessionIdle
  /\ \E size \in ReadSizes, chunkSize \in ChunkSizes :
       plf = [pc |-> "streaming", size |-> size, chunkSize |-> chunkSize,
              remaining |-> ChunksOf(size, chunkSize), delivered |-> 0,
              paused |-> FALSE, timers |-> 0, pending |-> {},
              invocations |-> <<>>, overlapped |-> FALSE,
              chunkCount |-> 0, totalProcessed |-> 0, hasError |-> FALSE,
              destroyed |-> FALSE, ended |-> FALSE, pendingAtEnd |-> 0,
              outcome |-> Pending]
  /\ parse = Idle
  /\ mon = Idle
  /\ rd = Idle
  /\ an = Idle
  /\ form = Idle

largeUnchanged == UNCHANGED <<parse, mon, rd, an, form>> /\ UNCHANGED sessionVars

\* a 'data' event: the handler up to its await of processor(chunk, totalProcessed)
LargeData ==
  /\ plf.pc = "streaming"
  /\ ~plf.destroyed
  /\ ~plf.ended
  /\ ~plf.paused
  /\ plf.remaining # <<>>
  /\ \E used \in LargeFileSamples :
       LET chunk == Head(plf.remaining)
           k == plf.delivered + 1
           s == [plf EXCEPT !.remaining = Tail(@), !.delivered = k]
       IN plf' = IF plf.hasError THEN s
                 ELSE IF checkMemoryLimit(used, LargeFileMaxMemory)
                 THEN [s EXCEPT !.hasError = TRUE, !.destroyed = TRUE,
                                !.outcome = Settle(@, Rejected("Memory usage limit exceeded"))]
                 ELSE [s EXCEPT !.pending = @ \cup {[k |-> k, chunk |-> chunk]},
                                !.invocations = Append(@, [k |-> k, offset |-> plf.totalProcessed]),
                                !.overlapped = @ \/ plf.pending # {}]
  /\ largeUnchanged

\* the processor's promise settles and the handler runs on from its await
LargeProcessorSettles ==
  /\ plf.pc = "streaming"
  /\ \E p \in plf.pending, ok \in BOOLEAN :
       plf' = IF ok
              THEN [plf EXCEPT !.pending = @ \ {p},
                               !.chunkCount = @ + 1,
                               !.totalProcessed = @ + p.chunk,
                               !.paused = TRUE,
                               !.timers = @ + 1]
              ELSE [plf EXCEPT !.pending = @ \ {p},
                               !.hasError = TRUE,
                               !.destroyed = TRUE,
                               !.outcome = Settle(@, Rejected("processor error"))]
  /\ largeUnchanged

\* setTimeout(() => stream.resume(), 10)
LargeResume ==
  /\ plf.pc = "streaming"
  /\ plf.timers > 0
  /\ plf' = [plf EXCEPT !.timers = @ - 1, !.paused = FALSE]
  /\ largeUnchanged

\* the 'end' event of a flowing stream that has delivered its last chunk
LargeEnd ==
  /\ plf.pc = "streaming"
  /\ ~plf.destroyed
  /\ ~plf.ended
  /\ ~plf.paused
  /\ plf.remaining = <<>>
  /\ plf' = IF plf.hasError THEN [plf EXCEPT !.ended = TRUE]
            ELSE [plf EXCEPT !.ended = TRUE,
                             !.pendingAtEnd = Cardinality(plf.pending),
                             !.outcome = Settle(@, Resolved(plf.chunkCount, plf.chunkCount))]
  /\ largeUnchanged

\* the 'error' event, after which the stream is destroyed
LargeError ==
  /\ plf.pc = "streaming"
  /\ ~plf.destroyed
  /\ ~plf.ended
  /\ plf' = [plf EXCEPT !.destroyed = TRUE,
                        !.outcome = IF plf.hasError THEN @
                                    ELSE Settle(@, Rejected("Failed to process large file"))]
  /\ largeUnchanged

\* nothing is left to happen: the call is over
LargeDone ==
  /\ plf.pc = "streaming"
  /\ plf.destroyed \/ plf.ended
  /\ plf.pending = {}
  /\ plf.timers = 0
  /\ plf' = [plf EXCEPT !.pc = "done"]
  /\ largeUnchanged

NextLarge ==
  \/ LargeData
  \/ LargeProcessorSettles
  \/ LargeResume
  \/ LargeEnd
  \/ LargeError
  \/ LargeDone

SpecLarge == InitLarge /\ [][NextLarge]_vars

SupportedPath(p) == PathExt(p) \in {"ts", "tsx", "js", "jsx"}
TextContent(c) == c.kind \notin {"empty", "nonstring"}

\* C21 as stated: the parser is called only for a non-empty string with a
\* supported path; every call with an unsupported path returns
\* 'Unsupported file type' and every call with an empty or non-string
\* content returns 'Invalid content', the parser not being called.
C21_FailFast ==
  parse.pc = "returned" =>
    /\ parse.result.parserCalled
         => TextContent(parse.content) /\ SupportedPath(parse.filePath)
    /\ ~SupportedPath(parse.filePath)
         => /\ ~parse.result.success
            /\ parse.result.error = "Unsupported file type"
    /\ ~TextContent(parse.content)
         => /\ ~parse.result.success
            /\ parse.result.error = "Invalid content: must be a non-empty string"

\* C21 amended: the content is validated first. An empty or non-string
\* content returns 'Invalid content' whatever the path; a non-empty string
\* with an unsupported path returns 'Unsupported file type'; the parser is
\* called in neither case and in every other.
C21_FailFastContentFirst ==
  parse.pc = "returned" =>
    /\ parse.result.parserCalled
         <=> (TextContent(parse.content) /\ SupportedPath(parse.filePath))
    /\ ~TextContent(parse.content)
         => /\ ~parse.result.success
            /\ parse.result.error = "Invalid content: must be a non-empty string"
    /\ (TextContent(parse.content) /\ ~SupportedPath(parse.filePath))
         => /\ ~parse.result.success
            /\ parse.result.error = "Unsupported file type"

\* parseAST returned for an empty content under an unsupported path
C21_Witness ==
  /\ parse.pc = "returned"
  /\ parse.content = Empty
  /\ PathExt(parse.filePath) = "txt"
  /\ parse.result.error = "Invalid content: must be a non-empty string"
  /\ ~parse.result.parserCalled

\* C22: readFileWithMemoryMonitoring reads or streams only after an initial
\* sample that does not exceed the ceiling; an initial sample above the
\* ceiling fails the call with 'Initial memory usage too high', no read and
\* no stream being started.
C22_InitialSampleGuardsRead ==
  rd.pc # "idle" /\ rd.entry = "readFileWithMemoryMonitoring" =>
    /\ (rd.readStarted \/ rd.streamStarted)
         => Len(rd.initial) = 1 /\ rd.initial[1] <= rd.limit
    /\ (Len(rd.initial) = 1 /\ rd.initial[1] > rd.limit)
         => /\ rd.outcome = Rejected("Initial memory usage too high")
            /\ ~rd.readStarted
            /\ ~rd.streamStarted
            /\ rd.pc = "done"

\* the initial sample was above the ceiling and the call has failed
C22_Witness ==
  /\ rd.pc = "done"
  /\ rd.entry = "readFileWithMemoryMonitoring"
  /\ rd.initial = <<150 * MiB>>
  /\ rd.outcome = Rejected("Initial memory usage too high")

\* index of the first sample above the ceiling, 0 if there is none
FirstOver(samples, limit) ==
  IF \E i \in 1..Len(samples) : samples[i] > limit
  THEN CHOOSE i \in 1..Len(samples) :
         /\ samples[i] > limit
         /\ \A j \in 1..(i - 1) : samples[j] <= limit
  ELSE 0

\* C23: a streamed file is sampled once per chunk delivered; from the first
\* sample above the ceiling the call is rejected with 'Memory usage limit
\* exceeded', only the chunks before that one were accumulated or passed to
\* onChunk and onProgress, and the caller receives no content.
C23_StreamAbortsOnBreach ==
  rd.pc # "idle" /\ rd.streamStarted =>
    LET delivered == Len(ChunksOf(rd.size, rd.chunkSize)) - Len(rd.remaining)
        k == FirstOver(rd.samples, rd.limit)
    IN /\ Len(rd.samples) = delivered
       /\ k > 0 =>
            /\ rd.outcome = Rejected("Memory usage limit exceeded")
            /\ "content" \notin DOMAIN rd.outcome
            /\ Len(rd.chunks) = k - 1
            /\ Len(rd.onChunk) = k - 1
            /\ Len(rd.onProgress) = k - 1
            /\ Len(rd.samples) = k

\* the second chunk of a three-chunk file found memory above the ceiling
C23_Witness ==
  /\ rd.streamStarted
  /\ Len(rd.samples) = 2
  /\ rd.samples[1] <= rd.limit
  /\ rd.samples[2] > rd.limit
  /\ Len(rd.remaining) = 1
  /\ Len(rd.chunks) = 1
  /\ rd.outcome = Rejected("Memory usage limit exceeded")

MaxOf(S) == CHOOSE x \in S : \A y \in S : y <= x

Recorded(m, n) == {m.startMemory} \cup {m.checkpoints[i] : i \in 1..n}

\* C24: while usage is what a checkpoint above the ceiling sampled,
\* isOverLimit() is true; and once any checkpoint sampled above the ceiling,
\* the peak of every report, taken then or later, is the largest usage
\* recorded up to it and so is above the ceiling, whatever the usage is now.
C24_BreachStaysInPeak ==
  mon.pc = "live" =>
    LET n == Len(mon.checkpoints)
    IN /\ (mon.checkpoints[n] > mon.maxMemory /\ mon.usage = mon.checkpoints[n])
            => isOverLimit(mon)
       /\ getReport(mon).peak = MaxOf(Recorded(mon, n))
       /\ (\E i \in 1..n : mon.checkpoints[i] > mon.maxMemory)
            => getReport(mon).peak > mon.maxMemory
       /\ mon.report.taken =>
            /\ mon.report.peak = MaxOf(Recorded(mon, mon.report.checkpoints))
            /\ (\E i \in 1..mon.report.checkpoints :
                  mon.checkpoints[i] > mon.maxMemory)
                 => mon.report.peak > mon.maxMemory

\* a checkpoint sampled above the ceiling, usage has fallen below it since,
\* later checkpoints were taken and a report after them still shows it
C24_Witness ==
  /\ mon.pc = "live"
  /\ Len(mon.checkpoints) = 4
  /\ mon.checkpoints[2] > mon.maxMemory
  /\ mon.checkpoints[4] < mon.maxMemory
  /\ ~isOverLimit(mon)
  /\ mon.report.taken
  /\ mon.report.checkpoints = 4
  /\ mon.report.peak = mon.checkpoints[2]

OverLimitRecorded(k) ==
  /\ \E e \in 1..Len(an.errors) :
       an.errors[e] = <<"Memory limit exceeded while analyzing",
                        an.files[k].relativePath>>
  /\ \A t \in 1..Len(an.threats) :
       an.threats[t].filePath # an.files[k].relativePath

C26_OneScanInFlight ==
  form.pc = "mounted" =>
    /\ \A url \in form.called : validateRepositoryUrl(url).isValid
    /\ form.inFlight <= 1
    /\ form.isLoading <=> form.inFlight = 1
    /\ form.inFlight = 1 => ControlsDisabled(form)

\* a second scan is in flight after the first one failed
C26_Witness ==
  /\ form.pc = "mounted"
  /\ form.scans = 2
  /\ form.completed = 0
  /\ form.error = ""
  /\ form.inFlight = 1
  /\ form.isLoading
  /\ form.called = {"https://github.com/user/repo", "git@example.com:user/repo.git"}

RECURSIVE SumSeq(_)
SumSeq(q) == IF q = <<>> THEN 0 ELSE Head(q) + SumSeq(Tail(q))

\* total length of the first n chunks of the file
DeliveredBefore(n) == SumSeq(SubSeq(ChunksOf(plf.size, plf.chunkSize), 1, n))

\* C27: no processor call of processLargeFile starts while another is
\* pending, and the k-th chunk delivered is passed with the total length of
\* the chunks delivered before it as its offset.
C27_NoOverlapExactOffsets ==
  plf.pc # "idle" =>
    /\ ~plf.overlapped
    /\ \A i \in 1..Len(plf.invocations) :
         plf.invocations[i].offset = DeliveredBefore(plf.invocations[i].k - 1)

\* C28: processLargeFile resolves only when no processor call is pending,
\* and the chunks count of its result is the number of chunks delivered.
C28_ResolvesAfterEveryProcessor ==
  plf.pc # "idle" /\ plf.outcome.kind = "resolved" =>
    /\ plf.pendingAtEnd = 0
    /\ plf.outcome.chunks = plf.delivered

\* C29: in every Function-constructor Finding, isDynamic is true exactly
\* when injectionRisk is neither static_string nor unknown_risk, and
\* riskLevel is high exactly when isDynamic is true.
C29_FunctionDetailsAgree ==
  \A i \in 1..Len(threats) :
    threats[i].subcategory = "function_constructor" =>
      /\ threats[i].details.isDynamic
           <=> threats[i].details.injectionRisk \notin {"static_string", "unknown_risk"}
      /\ threats[i].details.riskLevel = "high" <=> threats[i].details.isDynamic

RECURSIVE SizeOfFiles(_)
SizeOfFiles(fs) == IF fs = <<>> THEN 0 ELSE Head(fs).size + SizeOfFiles(Tail(fs))

\* C30: in every result of traverseDirectory, totalSize is the sum of the
\* sizes of the entries of files.
C30_TotalSizeIsSumOfFiles ==
  pc = "traversed" => traversal.totalSize = SizeOfFiles(traversal.files)

\* two files were returned, one of them reached through a symbolic link
C30_Witness ==
  /\ pc = "traversed"
  /\ Len(traversal.files) = 2
  /\ \E i \in 1..2 : traversal.files[i].path = <<Seg("ln", "ts")>>
  /\ traversal.totalSize = 20
====
